---------------------------- MODULE Spec2Model ----------------------------
(***************************************************************************)
(* A model of the ws-kalshi trading daemon: the PositionManager, the       *)
(* ledger store, the entry cycle and the exit of the engine, and the event *)
(* loop of main that drives them.                                          *)
(*                                                                         *)
(* Conventions.  An Option<T> is a sequence of length 0 (None) or 1        *)
(* (Some).  A HashMap<String, V> is the set of its values, each of which   *)
(* carries its key in the field ticker; insert and remove are modelled by  *)
(* what they do to that set.  A market ticker is a pair <<series, n>>, the *)
(* series being the prefix that starts_with tests.                         *)
(***************************************************************************)
EXTENDS Integers, Sequences, FiniteSets, TLC

VARIABLES
    series_tickers,     \* Config.series_tickers
    paper_trade,        \* Config.paper_trade
    now,                \* the wall clock, in minutes
    ledger,             \* brain/ledger.md: its data rows
    stats_md,           \* brain/stats.md: the stats last persisted
    positions,          \* PositionManager.positions
    orderbooks,         \* PositionManager.orderbooks
    subscribed_tickers, \* main: the tickers the loop has subscribed
    kalshi_rx,          \* main: the protocol-event channel, oldest first
    todo,               \* the calls the running handler has still to make
    resting,            \* exchange: the account's resting orders
    exposure,           \* exchange: the tickers with a nonzero position
    settled,            \* exchange: the account's settlements
    next_oid,           \* exchange: the next order id it hands out
    mkt,                \* exchange: the open market of each series
    critical,           \* a live order was placed and its row was not written
    last_op,            \* the call the last step of the loop made, and its outcome
    primary,            \* brain/ledger.md as a file: its state and its lines
    backup,             \* brain/ledger.md.bak
    mut,                \* the ledger mutation under way, and the primary it found
    ws,                 \* where each streaming task stands
    parsed,             \* the events each streaming task has parsed, in order
    received,           \* the events the loop has received from each, in order
    binance_rx,         \* main: the price-update channel, oldest first
    cmd_rx,             \* ws_loop: the command channel, oldest first
    shutdown,           \* safety: the signal handler has sent true
    stopped,            \* main has left its loop and returned
    wire                \* exchange: the tickers subscribed on the open connection

None == <<>>
Some(x) == <<x>>

(***************************************************************************)
(* Bounds of the model and configuration                                   *)
(***************************************************************************)
NumMarkets == 1                 \* markets listed one after another per series
SeriesSet == {"A", "B"}

tp_cents == 20                  \* Config.tp_cents_per_share, set by the deployment
sl_cents == 20                  \* Config.sl_cents_per_share, set by the deployment

starts_with(ticker, series) == ticker[1] = series

(***************************************************************************)
(* PositionManager (core/position_manager.rs)                              *)
(***************************************************************************)
MapGet(map, ticker) ==
    IF \E e \in map : e.ticker = ticker
    THEN Some(CHOOSE e \in map : e.ticker = ticker)
    ELSE None

MapInsert(map, entry) ==
    {e \in map : e.ticker # entry.ticker} \cup {entry}

MapRemove(map, ticker) == {e \in map : e.ticker # ticker}

position_tickers(pos) == {p.ticker : p \in pos}

has_position_for_series(pos, series) ==
    \E t \in position_tickers(pos) : starts_with(t, series)

\* a variant of on_fill that keeps the stored position next to the new one
on_fill_merge(pos, fill) ==
    pos \cup {[ticker |-> fill.ticker, side |-> fill.side, shares |-> fill.shares,
               entry_price_cents |-> fill.price_cents, order_id |-> fill.order_id]}

on_fill(pos, fill) ==
    MapInsert(pos, [ticker |-> fill.ticker, side |-> fill.side,
                    shares |-> fill.shares,
                    entry_price_cents |-> fill.price_cents,
                    order_id |-> fill.order_id])

\* a variant that keeps a side of the earlier book where the update has none
on_orderbook_update_merge(obs, update) ==
    LET old == MapGet(obs, update.ticker)
    IN IF old = None THEN MapInsert(obs, update)
       ELSE MapInsert(obs,
                [ticker |-> update.ticker,
                 yes |-> IF update.yes = <<>> THEN old[1].yes ELSE update.yes,
                 no |-> IF update.no = <<>> THEN old[1].no ELSE update.no])

on_orderbook_update(obs, update) == MapInsert(obs, update)

SeqMax(s) == CHOOSE m \in {s[i] : i \in 1..Len(s)} :
                 \A i \in 1..Len(s) : s[i] <= m

\* a variant of best_exit_price that takes the first level of the side
best_exit_price_first(p, ob) ==
    LET bids == IF p.side = "Yes" THEN ob.yes ELSE ob.no
    IN IF Len(bids) = 0 THEN None ELSE Some(bids[1][1])

best_exit_price(p, ob) ==
    LET bids == IF p.side = "Yes" THEN ob.yes ELSE ob.no
        prices == [i \in 1..Len(bids) |-> bids[i][1]]
    IN IF Len(bids) = 0 THEN None ELSE Some(SeqMax(prices))

unrealized_pnl_per_share(pos, obs, ticker) ==
    LET p == MapGet(pos, ticker)
        ob == MapGet(obs, ticker)
    IN IF p = None \/ ob = None THEN None
       ELSE LET x == best_exit_price(p[1], ob[1])
            IN IF x = None THEN None
               ELSE Some(x[1] - p[1].entry_price_cents)

\* a variant of check_exits whose take-profit test is strict
check_exits_strict(pos, obs) ==
    {<<t, "TakeProfit">> : t \in {u \in position_tickers(pos) :
        LET pnl == unrealized_pnl_per_share(pos, obs, u)
        IN pnl # None /\ pnl[1] > tp_cents}}
    \cup
    {<<t, "StopLoss">> : t \in {u \in position_tickers(pos) :
        LET pnl == unrealized_pnl_per_share(pos, obs, u)
        IN pnl # None /\ ~(pnl[1] > tp_cents) /\ pnl[1] <= -sl_cents}}

check_exits(pos, obs) ==
    {<<t, "TakeProfit">> : t \in {u \in position_tickers(pos) :
        LET pnl == unrealized_pnl_per_share(pos, obs, u)
        IN pnl # None /\ pnl[1] >= tp_cents}}
    \cup
    {<<t, "StopLoss">> : t \in {u \in position_tickers(pos) :
        LET pnl == unrealized_pnl_per_share(pos, obs, u)
        IN pnl # None /\ ~(pnl[1] >= tp_cents) /\ pnl[1] <= -sl_cents}}

build_exit_order(pos, obs, ticker) ==
    LET p == MapGet(pos, ticker)
        ob == MapGet(obs, ticker)
    IN IF p = None \/ ob = None THEN None
       ELSE LET x == best_exit_price(p[1], ob[1])
            IN IF x = None THEN None
               ELSE Some([ticker |-> p[1].ticker, side |-> p[1].side,
                          shares |-> p[1].shares, price_cents |-> x[1]])

build_exit_event(pos, obs, ticker, reason) ==
    LET p == MapGet(pos, ticker)
        ob == MapGet(obs, ticker)
    IN IF p = None \/ ob = None THEN None
       ELSE LET x == best_exit_price(p[1], ob[1])
            IN IF x = None THEN None
               ELSE Some([ticker |-> p[1].ticker, reason |-> reason,
                          entry_price_cents |-> p[1].entry_price_cents,
                          exit_price_cents |-> x[1],
                          shares |-> p[1].shares,
                          pnl_cents |-> (x[1] - p[1].entry_price_cents) * p[1].shares,
                          order_id |-> p[1].order_id])

clear_position_positions(pos, ticker) == MapRemove(pos, ticker)
\* a variant that leaves the cached book where it is
clear_position_orderbooks_keep(obs, ticker) == obs

clear_position_orderbooks(obs, ticker) == MapRemove(obs, ticker)

(***************************************************************************)
(* The protocol messages of the order-book channel (websocket.rs).  A      *)
(* message carries the market ticker and, for each side, no field or an    *)
(* array of levels; a level is an array, of a price and a quantity when it *)
(* is well formed.                                                         *)
(***************************************************************************)
\* websocket.rs 202-219: a missing side is empty, a short level is skipped
parse_levels(side) ==
    IF side = None THEN <<>>
    ELSE LET kept == SelectSeq(side[1], LAMBDA l : Len(l) >= 2)
         IN [i \in 1..Len(kept) |-> <<kept[i][1], kept[i][2]>>]

\* websocket.rs 194-226, for the two order-book types
parse_kalshi_message(m) ==
    IF m.type \in {"orderbook_snapshot", "orderbook_delta"}
    THEN Some([ticker |-> m.market_ticker,
               yes |-> parse_levels(m.yes), no |-> parse_levels(m.no)])
    ELSE None

(***************************************************************************)
(* Ledger store (storage.rs).  The ledger file is the sequence of its data *)
(* rows; a row written by append_ledger parses back to itself.  A line     *)
(* contains an order id or a ticker exactly when one of its columns is     *)
(* that id or ticker: ids and tickers are atoms here, none a substring of  *)
(* another column.                                                         *)
(***************************************************************************)
LineIsPending(row) == row.result = "pending"
LineContainsOrderId(row, order_id) == row.order_id = order_id
LineContainsTicker(row, ticker) == row.ticker = ticker

\* lines.iter_mut().rev() with a break at the first match: of the indices of
\* the matching lines, the last, 0 if there is none
LastIndex(matching) ==
    IF matching = {} THEN 0
    ELSE CHOOSE i \in matching : \A j \in matching : j <= i

append_ledger(lines, row) == Append(lines, row)

\* a variant of settle_last_trade that books the settlement's pnl without the cost
settle_last_trade_gross(lines, settlement) ==
    LET i == LastIndex({k \in 1..Len(lines) : LineIsPending(lines[k])})
    IN IF i = 0 THEN lines
       ELSE LET pnl == settlement.pnl_cents
            IN [lines EXCEPT ![i] =
                   [@ EXCEPT !.result = settlement.result,
                             !.pnl_cents = pnl,
                             !.cumulative_cents = @ + pnl]]

\* a variant of settle_last_trade that rewrites the last row of a ledger
\* that holds a pending row
settle_last_trade_any(lines, settlement) ==
    LET i == IF \E k \in 1..Len(lines) : LineIsPending(lines[k]) THEN Len(lines) ELSE 0
    IN IF i = 0 THEN lines
       ELSE LET cost == lines[i].price * lines[i].shares
                pnl == settlement.pnl_cents - cost
            IN [lines EXCEPT ![i] =
                   [@ EXCEPT !.result = settlement.result,
                             !.pnl_cents = pnl,
                             !.cumulative_cents = @ + pnl]]

settle_last_trade(lines, settlement) ==
    LET i == LastIndex({k \in 1..Len(lines) : LineIsPending(lines[k])})
    IN IF i = 0 THEN lines
       ELSE LET cost == lines[i].price * lines[i].shares
                pnl == settlement.pnl_cents - cost
            IN [lines EXCEPT ![i] =
                   [@ EXCEPT !.result = settlement.result,
                             !.pnl_cents = pnl,
                             !.cumulative_cents = @ + pnl]]

\* a variant of cancel_trade that marks every pending row, whatever its order
cancel_trade_every_pending(lines, order_id) ==
    [i \in 1..Len(lines) |->
        IF LineIsPending(lines[i])
        THEN [lines[i] EXCEPT !.result = "cancelled", !.pnl_cents = 0]
        ELSE lines[i]]

\* storage.rs 139-166
cancel_trade(lines, order_id) ==
    LET i == LastIndex({k \in 1..Len(lines) :
                           LineIsPending(lines[k])
                           /\ LineContainsOrderId(lines[k], order_id)})
    IN IF i = 0 THEN lines
       ELSE [lines EXCEPT ![i] = [@ EXCEPT !.result = "cancelled", !.pnl_cents = 0]]

(***************************************************************************)
(* The ledger as a file.  A file is missing, unreadable (read_to_string    *)
(* fails on it) or a sequence of lines.  A line is what split('|') makes   *)
(* of it: form tells a line without a leading bar ("text"), the header     *)
(* (it contains "Timestamp"), the rule under it (it contains "---") and a  *)
(* line of cells; cols is the number of pieces of the split, 11 for a line *)
(* written by append_ledger; shares_ok tells whether the shares cell is a  *)
(* number; row holds the cells.                                            *)
(***************************************************************************)
Missing == [st |-> "missing", lines |-> <<>>]
Unreadable == [st |-> "unreadable", lines |-> <<>>]
File(lines) == [st |-> "ok", lines |-> lines]

NoRow ==
    [timestamp |-> 0, ticker |-> <<"", 0>>, side |-> "", shares |-> 0, price |-> 0,
     result |-> "", pnl_cents |-> 0, cumulative_cents |-> 0, order_id |-> <<>>]

TextLine == [form |-> "text", cols |-> 1, shares_ok |-> TRUE, row |-> NoRow]
HeaderLine == [form |-> "header", cols |-> 11, shares_ok |-> TRUE, row |-> NoRow]
RuleLine == [form |-> "rule", cols |-> 11, shares_ok |-> TRUE, row |-> NoRow]

\* format!("| {} | {} | {} | {} | {} | {} | {} | {} | {} |", ..)
format_row(row) == [form |-> "cells", cols |-> 11, shares_ok |-> TRUE, row |-> row]

\* l.starts_with('|') && !l.contains("---") && !l.contains("Timestamp")
IsDataLine(line) == line.form = "cells"

\* the closure of filter_map in parse_ledger_content
parse_line(line) ==
    IF line.cols < 9 THEN None
    ELSE IF ~line.shares_ok THEN None
    ELSE Some([line.row EXCEPT !.order_id = IF line.cols >= 10 THEN @ ELSE <<>>])

RECURSIVE parse_ledger_content(_)
parse_ledger_content(lines) ==
    IF lines = <<>> THEN <<>>
    ELSE LET rest == parse_ledger_content(Tail(lines))
         IN IF ~IsDataLine(Head(lines)) THEN rest
            ELSE IF parse_line(Head(lines)) = None THEN rest
            ELSE <<parse_line(Head(lines))[1]>> \o rest

data_lines(lines) == Cardinality({k \in 1..Len(lines) : IsDataLine(lines[k])})

Ok(rows) == [ok |-> TRUE, rows |-> rows]
Err == [ok |-> FALSE, rows |-> <<>>]

\* a variant of read_ledger that returns what the primary parses to
read_ledger_no_fallback(prim, bak) ==
    IF prim.st # "ok" /\ bak.st # "ok" THEN Err
    ELSE Ok(parse_ledger_content(IF prim.st = "ok" THEN prim.lines ELSE bak.lines))

read_ledger(prim, bak) ==
    IF prim.st # "ok" /\ bak.st # "ok" THEN Err
    ELSE LET content == IF prim.st = "ok" THEN prim.lines ELSE bak.lines
             rows == parse_ledger_content(content)
         IN IF data_lines(content) > 0 /\ rows = <<>>
            THEN IF bak.st # "ok" THEN Err ELSE Ok(parse_ledger_content(bak.lines))
            ELSE Ok(rows)

\* line.contains("| pending |"): the result cell and the bar after it
ContainsPending(line) ==
    line.form = "cells" /\ line.cols >= 8 /\ line.row.result = "pending"

\* the line a mutation writes in place of a line of at least 9 pieces
Rewritten(line, result, pnl, cumulative) ==
    [form |-> "cells", cols |-> 11, shares_ok |-> line.shares_ok,
     row |-> [line.row EXCEPT !.result = result, !.pnl_cents = pnl,
                              !.cumulative_cents = cumulative,
                              !.order_id = IF line.cols >= 10 THEN @ ELSE <<>>]]

\* the lines settle_last_trade writes back
settle_lines(lines, settlement) ==
    LET i == LastIndex({k \in 1..Len(lines) : ContainsPending(lines[k])})
    IN IF i = 0 \/ lines[i].cols < 9 THEN lines
       ELSE LET shares == IF lines[i].shares_ok THEN lines[i].row.shares ELSE 1
                pnl == settlement.pnl_cents - lines[i].row.price * shares
            IN [lines EXCEPT ![i] = Rewritten(@, settlement.result, pnl,
                                              @.row.cumulative_cents + pnl)]

\* the lines cancel_trade writes back
cancel_lines(lines, order_id) ==
    LET i == LastIndex({k \in 1..Len(lines) :
                           /\ ContainsPending(lines[k])
                           /\ lines[k].cols >= 10 /\ lines[k].row.order_id = order_id})
    IN IF i = 0 THEN lines
       ELSE [lines EXCEPT ![i] = Rewritten(@, "cancelled", 0, @.row.cumulative_cents)]

ExitResult(reason) ==
    IF reason = "TakeProfit" THEN "exit_take_profit" ELSE "exit_stop_loss"

record_early_exit(lines, exit) ==
    LET i == LastIndex({k \in 1..Len(lines) :
                           LineIsPending(lines[k])
                           /\ LineContainsTicker(lines[k], exit.ticker)})
    IN IF i = 0 THEN lines
       ELSE [lines EXCEPT ![i] =
                [@ EXCEPT !.result = ExitResult(exit.reason),
                          !.pnl_cents = exit.pnl_cents,
                          !.cumulative_cents = @ + exit.pnl_cents]]

\* the lines record_early_exit writes back
exit_lines(lines, exit) ==
    LET i == LastIndex({k \in 1..Len(lines) :
                           /\ ContainsPending(lines[k])
                           /\ lines[k].row.ticker = exit.ticker})
    IN IF i = 0 \/ lines[i].cols < 9 THEN lines
       ELSE [lines EXCEPT ![i] = Rewritten(@, ExitResult(exit.reason), exit.pnl_cents,
                                           @.row.cumulative_cents + exit.pnl_cents)]

\* a variant of BackupCopy that leaves the backup alone
BackupCopy_skip(prim, bak) == bak

\* the first statement of every mutation: if the primary exists, it is copied
\* over the backup
BackupCopy(prim, bak) == IF prim.st = "missing" THEN bak ELSE prim

\* what a mutation then leaves in the primary, None when it returns an error
\* before it writes: append_ledger opens for append without create,
\* the other three read the file first and write all of its lines back
WriteOf(op, prim) ==
    IF op.name = "append_ledger"
    THEN IF prim.st = "missing" THEN None
         ELSE IF prim.st = "unreadable" THEN Some(prim)
         ELSE Some(File(Append(prim.lines, format_row(op.row))))
    ELSE IF prim.st # "ok" THEN None
    ELSE IF op.name = "settle_last_trade"
         THEN Some(File(settle_lines(prim.lines, op.settlement)))
    ELSE IF op.name = "cancel_trade"
         THEN Some(File(cancel_lines(prim.lines, op.order_id)))
    ELSE Some(File(exit_lines(prim.lines, op.exit)))

(***************************************************************************)
(* Stats (core/stats.rs is not among the source files: modelled from the   *)
(* data model of the specification, "pure derivation over the LedgerRow    *)
(* sequence").  All rows of a run fall on one day.                         *)
(***************************************************************************)
RECURSIVE SumPnl(_)
SumPnl(rows) ==
    IF rows = <<>> THEN 0 ELSE rows[1].pnl_cents + SumPnl(Tail(rows))

RECURSIVE Streak(_)
\* signed run of equal outcomes at the end of the win/loss rows
Streak(rows) ==
    LET n == Len(rows)
    IN IF n = 0 THEN 0
       ELSE LET r == rows[n]
                rest == Streak(SubSeq(rows, 1, n - 1))
            IN IF r.result = "win" THEN (IF rest > 0 THEN rest + 1 ELSE 1)
               ELSE IF r.result = "loss" THEN (IF rest < 0 THEN rest - 1 ELSE -1)
               ELSE rest

stats_compute(rows) ==
    [total_pnl_cents |-> SumPnl(rows),
     today_pnl_cents |-> SumPnl(rows),
     current_streak |-> Streak(rows)]

(***************************************************************************)
(* RiskPolicy (core/risk.rs)                                               *)
(***************************************************************************)
max_shares == 2
max_daily_loss_cents == 1000
max_consecutive_losses == 7
min_balance_cents == 500
min_minutes_to_expiry == 2

\* a variant that looks at the day's loss before the balance
risk_check_loss_first(stats, balance_cents) ==
    IF stats.today_pnl_cents <= -max_daily_loss_cents THEN Some("daily_loss")
    ELSE IF balance_cents < min_balance_cents THEN Some("balance")
    ELSE IF stats.current_streak <= -max_consecutive_losses THEN Some("streak")
    ELSE None

\* risk.rs 3-24
risk_check(stats, balance_cents) ==
    IF balance_cents < min_balance_cents THEN Some("balance")
    ELSE IF stats.today_pnl_cents <= -max_daily_loss_cents THEN Some("daily_loss")
    ELSE IF stats.current_streak <= -max_consecutive_losses THEN Some("streak")
    ELSE None

(***************************************************************************)
(* Engine (core/engine.rs).  A call of entry_cycle is a fold of its steps  *)
(* over a context c: the files and the exchange as the call has left them  *)
(* so far, the exchange calls it has made, and, once it has returned, its  *)
(* outcome.  inp holds what the outside answers during the call: which     *)
(* call fails, if any (fail, and k for the k-th cancellation), the         *)
(* balance, the state of the series' market and the Brain's decision.      *)
(***************************************************************************)
\* a variant that keeps the Debug spelling of the side
Lower_keep_case(side) == side

\* engine.rs 146: format!("{:?}", side).to_lowercase()
Lower(side) == IF side = "Yes" THEN "yes" ELSE "no"

Min(a, b) == IF a <= b THEN a ELSE b
Clamp(x, lo, hi) == IF x < lo THEN lo ELSE IF x > hi THEN hi ELSE x
UnwrapOr(opt, d) == IF opt = None THEN d ELSE opt[1]

Return(c, out) == [c EXCEPT !.st = "end", !.out = out]
Call(c, name) == [c EXCEPT !.calls = Append(@, name)]

RECURSIVE CancelStale(_, _, _, _)
\* engine.rs 29-33: the loop over the resting orders the exchange listed
CancelStale(c, orders, idx, inp) ==
    IF orders = <<>> THEN c
    ELSE LET o == Head(orders)
             c1 == Call(c, "cancel_order")
         IN IF inp.fail = "cancel_order" /\ inp.k = idx
            THEN Return(c1, "err:cancel_order")
            ELSE LET c2 == [c1 EXCEPT !.resting =
                                SelectSeq(@, LAMBDA r : r.order_id # o.order_id)]
                 IN IF inp.fail = "cancel_trade" /\ inp.k = idx
                    THEN Return(c2, "err:cancel_trade")
                    ELSE CancelStale(
                             [c2 EXCEPT !.ledger = cancel_trade(@, o.order_id)],
                             Tail(orders), idx + 1, inp)

\* a variant of StepCancel that leaves the exit sells resting
StepCancel_buys_only(c, inp) ==
    IF c.st # "run" THEN c
    ELSE LET c1 == Call(c, "resting_orders")
         IN IF inp.fail = "resting_orders" THEN Return(c1, "err:resting_orders")
            ELSE CancelStale(c1, SelectSeq(c1.resting, LAMBDA r : r.action = "buy"),
                             1, inp)

\* engine.rs 27-33
StepCancel(c, inp) ==
    IF c.st # "run" THEN c
    ELSE LET c1 == Call(c, "resting_orders")
         IN IF inp.fail = "resting_orders" THEN Return(c1, "err:resting_orders")
            ELSE CancelStale(c1, c1.resting, 1, inp)

\* client.rs 227-252: the settlements of a ticker, as the engine reads them
Settlements(settlements, ticker) ==
    LET rs == {s \in settlements : s.ticker = ticker}
    IN IF rs = {} THEN None
       ELSE LET s == CHOOSE x \in rs : TRUE
            IN Some([ticker |-> s.ticker,
                     result |-> IF s.revenue > 0 THEN "win" ELSE "loss",
                     pnl_cents |-> s.revenue])

ZombieAgeMin == 30

StepSettle(c, inp) ==
    IF c.st # "run" THEN c
    ELSE IF inp.fail = "read_ledger" THEN Return(c, "err:read_ledger")
    ELSE LET i == LastIndex({k \in 1..Len(c.ledger) : LineIsPending(c.ledger[k])})
         IN IF i = 0 THEN [c EXCEPT !.mem = c.ledger]
            ELSE LET pending == c.ledger[i]
                     c1 == Call(c, "settlements")
                     found == Settlements(c.settled, pending.ticker)
                 IN IF inp.fail = "settlements" THEN Return(c1, "err:settlements")
                    ELSE IF found # None
                    THEN IF inp.fail = "settle_last_trade"
                         THEN Return(c1, "err:settle_last_trade")
                         ELSE LET c2 == [c1 EXCEPT !.ledger =
                                             settle_last_trade(@, found[1])]
                              IN IF inp.fail = "read_ledger2"
                                 THEN Return(c2, "err:read_ledger2")
                                 ELSE IF inp.fail = "write_stats"
                                 THEN Return(c2, "err:write_stats")
                                 ELSE [c2 EXCEPT !.mem = c2.ledger,
                                                 !.stats_md = Some(stats_compute(c2.ledger)),
                                                 !.settle = "settled"]
                    ELSE IF c.now - pending.timestamp > ZombieAgeMin
                    THEN IF inp.fail = "settle_last_trade"
                         THEN Return(c1, "err:settle_last_trade")
                         ELSE LET zombie == [ticker |-> pending.ticker,
                                             result |-> "unknown", pnl_cents |-> 0]
                                  c2 == [c1 EXCEPT !.ledger =
                                             settle_last_trade(@, zombie)]
                              IN IF inp.fail = "read_ledger2"
                                 THEN Return(c2, "err:read_ledger2")
                                 ELSE [c2 EXCEPT !.mem = c2.ledger, !.settle = "zombie"]
                    ELSE [c1 EXCEPT !.mem = c1.ledger, !.settle = "left"]

\* a variant of the risk step that goes on when the balance call has failed
StepRisk_no_abort(c, inp) ==
    IF c.st # "run" THEN c
    ELSE LET computed_stats == stats_compute(c.mem)
             c1 == Call(c, "balance")
         IN IF inp.fail # "balance" /\ risk_check(computed_stats, inp.balance) # None
            THEN Return(c1, "veto")
            ELSE c1

StepRisk(c, inp) ==
    IF c.st # "run" THEN c
    ELSE LET computed_stats == stats_compute(c.mem)
             c1 == Call(c, "balance")
         IN IF inp.fail = "balance" THEN Return(c1, "err:balance")
            ELSE IF risk_check(computed_stats, inp.balance) # None
                 THEN Return(c1, "veto")
                 ELSE c1

\* client.rs 100-141 as the engine calls it: the series' open market with the
\* soonest expiry and the minutes left to it
ActiveMarket(c, series, inp) ==
    IF inp.market = "none" \/ c.mkt[series] > NumMarkets THEN None
    ELSE Some([ticker |-> <<series, c.mkt[series]>>,
               minutes_to_expiry |-> inp.minutes])

StepMarket(c, series, inp) ==
    IF c.st # "run" THEN c
    ELSE LET c1 == Call(c, "active_market")
             m == ActiveMarket(c, series, inp)
         IN IF inp.fail = "active_market" THEN Return(c1, "err:active_market")
            ELSE IF m = None THEN Return(c1, "skip:no_market")
            ELSE IF ~(m[1].minutes_to_expiry >= min_minutes_to_expiry)
                 THEN Return(c1, "skip:expiry")
            ELSE LET c2 == Call(c1, "orderbook")
                 IN IF inp.fail = "orderbook" THEN Return(c2, "err:orderbook")
                    ELSE [c2 EXCEPT !.market = m[1].ticker]

\* a variant of the brain step that places without the final position check
StepBrain_no_final_check(c, inp) ==
    IF c.st # "run" THEN c
    ELSE IF inp.fail = "read_prompt" THEN Return(c, "err:read_prompt")
    ELSE IF inp.fail = "decide" THEN Return(c, "err:decide")
    ELSE IF inp.decision.action = "Pass" THEN Return(c, "pass")
    ELSE LET c1 == Call(c, "positions")
         IN IF inp.fail = "positions" THEN Return(c1, "err:positions")
            ELSE c1

\* engine.rs 100-132
StepBrain(c, inp) ==
    IF c.st # "run" THEN c
    ELSE IF inp.fail = "read_prompt" THEN Return(c, "err:read_prompt")
    ELSE IF inp.fail = "decide" THEN Return(c, "err:decide")
    ELSE IF inp.decision.action = "Pass" THEN Return(c, "pass")
    ELSE LET c1 == Call(c, "positions")
         IN IF inp.fail = "positions" THEN Return(c1, "err:positions")
            ELSE IF c.market \in c.exposure THEN Return(c1, "abort:exposure")
            ELSE c1

YesPrice(side, price_cents) == IF side = "Yes" THEN price_cents ELSE 100 - price_cents

\* engine.rs 134-149 and 166-181: the row of the entry
NewRow(c, side, shares, price, id) ==
    [timestamp |-> c.now, ticker |-> c.market,
     side |-> Lower(side), shares |-> shares, price |-> price,
     result |-> "pending", pnl_cents |-> 0,
     cumulative_cents |-> stats_compute(c.mem).total_pnl_cents,
     order_id |-> id]

\* engine.rs 137-153
ExecutePaper(c, side, shares, price, inp) ==
    IF inp.fail = "append_ledger" THEN Return(c, "err:append_ledger")
    ELSE Return([c EXCEPT !.ledger =
                     append_ledger(@, NewRow(c, side, shares, price, <<"paper", c.now>>))],
                "ok:paper")

\* a variant of the live branch that writes the row first and places the order after
ExecuteLive_append_first(c, side, shares, price, inp) ==
    LET id == <<"ord", c.next_oid>>
        c1 == Call([c EXCEPT !.ledger =
                        append_ledger(@, NewRow(c, side, shares, price, id))],
                   "place_order")
        c2 == [c1 EXCEPT !.next_oid = @ + 1,
                         !.resting = Append(@,
                             [order_id |-> id, ticker |-> c.market,
                              action |-> "buy", side |-> side,
                              count |-> shares,
                              yes_price |-> YesPrice(side, price)])]
    IN IF inp.fail = "append_ledger" THEN Return(c, "err:append_ledger")
       ELSE IF inp.fail = "place_order" THEN Return(c1, "err:place_order")
       ELSE Return(c2, "ok:live")

\* engine.rs 154-193
ExecuteLive(c, side, shares, price, inp) ==
    LET c1 == Call(c, "place_order")
        id == <<"ord", c.next_oid>>
        c2 == [c1 EXCEPT !.next_oid = @ + 1,
                         !.resting = Append(@,
                             [order_id |-> id, ticker |-> c.market,
                              action |-> "buy", side |-> side,
                              count |-> shares,
                              yes_price |-> YesPrice(side, price)])]
    IN IF inp.fail = "place_order" THEN Return(c1, "err:place_order")
       ELSE IF inp.fail = "append_ledger"
            THEN Return(c2, "critical:append_ledger")
            ELSE Return([c2 EXCEPT !.ledger =
                             append_ledger(@, NewRow(c, side, shares, price, id))],
                        "ok:live")

\* a variant of the execute step that takes the decision's numbers as they come
StepExecute_unclamped(c, inp) ==
    IF c.st # "run" THEN c
    ELSE LET side == UnwrapOr(inp.decision.side, "Yes")
             shares == UnwrapOr(inp.decision.shares, 1)
             price == UnwrapOr(inp.decision.max_price_cents, 50)
         IN IF c.paper_trade
            THEN ExecutePaper(c, side, shares, price, inp)
            ELSE ExecuteLive(c, side, shares, price, inp)

\* a variant of the execute step that takes the live branch in either mode
StepExecute_always_live(c, inp) ==
    IF c.st # "run" THEN c
    ELSE LET side == UnwrapOr(inp.decision.side, "Yes")
             shares == Min(UnwrapOr(inp.decision.shares, 1), max_shares)
             price == Clamp(UnwrapOr(inp.decision.max_price_cents, 50), 1, 99)
         IN ExecuteLive(c, side, shares, price, inp)

StepExecute(c, inp) ==
    IF c.st # "run" THEN c
    ELSE LET side == UnwrapOr(inp.decision.side, "Yes")
             shares == Min(UnwrapOr(inp.decision.shares, 1), max_shares)
             price == Clamp(UnwrapOr(inp.decision.max_price_cents, 50), 1, 99)
         IN IF c.paper_trade
            THEN ExecutePaper(c, side, shares, price, inp)
            ELSE ExecuteLive(c, side, shares, price, inp)

entry_cycle(c, series, inp) ==
    IF has_position_for_series(c.positions, series) THEN Return(c, "skip:position")
    ELSE StepExecute(StepBrain(StepMarket(StepRisk(StepSettle(StepCancel(c, inp),
             inp), inp), series, inp), inp), inp)

\* a variant of execute_exit that drops the position when the sell has failed
execute_exit_clear_on_error(c, ticker, reason, xin) ==
    LET exit_event == build_exit_event(c.positions, c.orderbooks, ticker, reason)
        exit_order == build_exit_order(c.positions, c.orderbooks, ticker)
    IN IF exit_event = None \/ exit_order = None THEN Return(c, "noop")
       ELSE LET c1 == IF c.paper_trade THEN c ELSE Call(c, "sell_order")
                c2 == IF c.paper_trade THEN c
                      ELSE [c1 EXCEPT !.next_oid = @ + 1,
                                      !.resting = Append(@,
                                          [order_id |-> <<"ord", c.next_oid>>,
                                           ticker |-> exit_order[1].ticker,
                                           action |-> "sell",
                                           side |-> exit_order[1].side,
                                           count |-> exit_order[1].shares,
                                           yes_price |-> YesPrice(exit_order[1].side,
                                                            exit_order[1].price_cents)])]
                c3 == IF xin.record THEN c2
                      ELSE [c2 EXCEPT !.ledger = record_early_exit(@, exit_event[1])]
            IN IF ~c.paper_trade /\ xin.sell THEN Return([c1 EXCEPT !.positions = clear_position_positions(@, ticker)],
                           "err:sell_order")
               ELSE IF xin.read THEN Return(c3, "err:read_ledger")
               ELSE IF xin.write THEN Return(c3, "err:write_stats")
               ELSE Return([c3 EXCEPT !.stats_md = Some(stats_compute(c3.ledger)),
                                      !.positions = clear_position_positions(@, ticker),
                                      !.orderbooks = clear_position_orderbooks(@, ticker)],
                           "ok")

\* engine.rs 199-253
execute_exit(c, ticker, reason, xin) ==
    LET exit_event == build_exit_event(c.positions, c.orderbooks, ticker, reason)
        exit_order == build_exit_order(c.positions, c.orderbooks, ticker)
    IN IF exit_event = None \/ exit_order = None THEN Return(c, "noop")
       ELSE LET c1 == IF c.paper_trade THEN c ELSE Call(c, "sell_order")
                c2 == IF c.paper_trade THEN c
                      ELSE [c1 EXCEPT !.next_oid = @ + 1,
                                      !.resting = Append(@,
                                          [order_id |-> <<"ord", c.next_oid>>,
                                           ticker |-> exit_order[1].ticker,
                                           action |-> "sell",
                                           side |-> exit_order[1].side,
                                           count |-> exit_order[1].shares,
                                           yes_price |-> YesPrice(exit_order[1].side,
                                                            exit_order[1].price_cents)])]
                c3 == IF xin.record THEN c2
                      ELSE [c2 EXCEPT !.ledger = record_early_exit(@, exit_event[1])]
            IN IF ~c.paper_trade /\ xin.sell THEN Return(c1, "err:sell_order")
               ELSE IF xin.read THEN Return(c3, "err:read_ledger")
               ELSE IF xin.write THEN Return(c3, "err:write_stats")
               ELSE Return([c3 EXCEPT !.stats_md = Some(stats_compute(c3.ledger)),
                                      !.positions = clear_position_positions(@, ticker),
                                      !.orderbooks = clear_position_orderbooks(@, ticker)],
                           "ok")

(***************************************************************************)
(* The inputs the model draws                                              *)
(***************************************************************************)
MaxRows == 2        \* rows the ledger may hold
MaxOrders == 2      \* orders the exchange accepts in a run
MaxQueue == 1       \* events in flight on the protocol-event channel
MaxNow == 31        \* the clock stops here
TimeSteps == {30, 31}
Revenues == {0, 100}

Decision(action, side, shares, price) ==
    [action |-> action, side |-> side, shares |-> shares, max_price_cents |-> price]
BuyDecisions ==
    {Decision("Buy", Some("Yes"), Some(2), Some(40)),
     Decision("Buy", Some("Yes"), Some(5), Some(40))}
PassDecision == Decision("Pass", None, None, None)

Input(fail, k, balance, market, minutes, decision) ==
    [fail |-> fail, k |-> k, balance |-> balance, market |-> market,
     minutes |-> minutes, decision |-> decision]
DefaultDecision == Decision("Buy", Some("Yes"), Some(2), Some(40))
FailPoints ==
    {"resting_orders", "read_ledger", "settlements", "settle_last_trade",
     "read_ledger2", "write_stats", "balance", "active_market", "orderbook",
     "read_prompt", "decide", "positions", "place_order", "append_ledger"}
ExchangeCalls ==
    {"resting_orders", "cancel_order", "settlements", "balance", "active_market",
     "orderbook", "positions", "place_order"}
\* every answer of the outside that leads the call down a different path
Balance == min_balance_cents + 1
CycleInputs ==
    {Input(f, 0, Balance, "open", 10, DefaultDecision) : f \in FailPoints}
    \cup {Input(f, k, Balance, "open", 10, DefaultDecision) :
              f \in {"cancel_order", "cancel_trade"}, k \in 1..MaxOrders}
    \cup {Input("none", 0, min_balance_cents - 1, "open", 10, DefaultDecision),
          Input("none", 0, min_balance_cents, "open", 10, DefaultDecision),
          Input("none", 0, Balance, "none", 10, DefaultDecision),
          Input("none", 0, Balance, "open", 1, DefaultDecision),
          Input("none", 0, Balance, "open", 10, PassDecision)}
    \cup {Input("none", 0, Balance, "open", 2, d) : d \in BuyDecisions}

ExitInput(sell, record, read, write) ==
    [sell |-> sell, record |-> record, read |-> read, write |-> write]
ExitInputs ==
    {ExitInput(FALSE, FALSE, FALSE, FALSE), ExitInput(TRUE, FALSE, FALSE, FALSE),
     ExitInput(FALSE, TRUE, FALSE, FALSE), ExitInput(FALSE, FALSE, TRUE, FALSE),
     ExitInput(FALSE, FALSE, FALSE, TRUE), ExitInput(FALSE, TRUE, TRUE, FALSE)}

Books ==
    {[yes |-> << <<35, 1>>, <<60, 1>> >>, no |-> << <<90, 1>> >>],
     [yes |-> << <<20, 1>> >>, no |-> <<>>]}

LifecycleStatuses == {"settled", "closed"}

(***************************************************************************)
(* The daemon (main.rs): the startup cycles and the event loop.  A handler *)
(* that makes several engine calls (one entry cycle per series, one exit   *)
(* per signal) makes them one step each, in order, with no other handler   *)
(* in between: todo holds the calls still to make, and the loop is at its  *)
(* wait point exactly when todo is empty.  The exchange acts on its own    *)
(* between any two steps.                                                  *)
(***************************************************************************)
Ctx ==
    [st |-> "run", out |-> "", calls |-> <<>>, settle |-> "none",
     market |-> <<"", 0>>, mem |-> <<>>,
     paper_trade |-> paper_trade, now |-> now, ledger |-> ledger,
     stats_md |-> stats_md, positions |-> positions, orderbooks |-> orderbooks,
     resting |-> resting, exposure |-> exposure, settled |-> settled,
     next_oid |-> next_oid, mkt |-> mkt]

EntryJobs == [i \in 1..Len(series_tickers) |-> [op |-> "entry", arg |-> series_tickers[i]]]

\* a variant of LoopTop that subscribes nothing
LoopTop_keep(subs, pos, rest) == subs

\* main.rs 84-92: the top of the loop, reached when the handler has returned
LoopTop(subs, pos, rest) ==
    IF rest = <<>> THEN subs \cup position_tickers(pos) ELSE subs

\* no ledger mutation is under way
NoOp == [name |-> "", row |-> NoRow, settlement |-> [result |-> "", pnl_cents |-> 0],
         order_id |-> <<>>, exit |-> [ticker |-> <<"", 0>>, reason |-> "", pnl_cents |-> 0]]
NoMutation == [st |-> "idle", op |-> NoOp, pre |-> Missing]

Tasks == {"kalshi", "binance"}

\* the streaming tasks are connected and keep up, and no signal arrives
Streaming ==
    /\ ws = [task \in Tasks |-> "connected"]
    /\ parsed = [task \in Tasks |-> <<>>]
    /\ received = [task \in Tasks |-> <<>>]
    /\ binance_rx = <<>>
    /\ cmd_rx = <<>>
    /\ shutdown = FALSE
    /\ stopped = FALSE
    /\ wire = {}

store_vars == <<primary, backup, mut>>
net_vars == <<ws, parsed, received, binance_rx, cmd_rx, shutdown, stopped, wire>>

\* the variables of the file level and of the streaming tasks, which the
\* model of the trading logic leaves alone: it keeps the rows of
\* brain/ledger.md in ledger and takes every command as enqueued at once
aside == <<store_vars, net_vars>>

\* main.rs 38-69: the state of main before the startup cycles
MainInit ==
    /\ series_tickers = <<"A">>
    /\ paper_trade \in BOOLEAN
    /\ now = 0
    /\ ledger = <<>>
    /\ stats_md = None
    /\ positions = {}
    /\ orderbooks = {}
    /\ subscribed_tickers = {}
    /\ kalshi_rx = <<>>
    /\ todo = EntryJobs
    /\ resting = <<>>
    /\ exposure = {}
    /\ settled = {}
    /\ next_oid = 1
    /\ mkt = [s \in SeriesSet |-> 1]
    /\ critical = FALSE
    /\ last_op = [op |-> "start", out |-> ""]

Init ==
    /\ MainInit
    /\ primary = File(<<HeaderLine, RuleLine>>)
    /\ backup = Missing
    /\ mut = NoMutation
    /\ Streaming

\* what the loop sees of a call: it returned Ok, or the error of an exchange
\* call, or the error of a file operation
OutKind(out) ==
    IF out \in {"err:" \o x : x \in ExchangeCalls \cup {"sell_order"}}
    THEN "err:exchange"
    ELSE IF out \in {"err:" \o x : x \in FailPoints \cup {"cancel_trade"}}
            \/ out = "critical:append_ledger"
    THEN "err:storage"
    ELSE "ok"

\* the failure an input names is one the call runs into: an input whose failure
\* the call never reaches is the input without it
Fired(fail, out) ==
    \/ fail = "none"
    \/ out = "err:" \o fail
    \/ out = "critical:" \o fail

\* a variant of EntryCall that gives up the cycles of the other series of the
\* tick when a cycle has returned an error
EntryCall_stop_on_error(jobs, inp) ==
    /\ jobs # <<>>
    /\ Head(jobs).op = "entry"
    /\ LET c == entry_cycle(Ctx, Head(jobs).arg, inp)
       IN /\ Fired(inp.fail, c.out)
          /\ Len(c.ledger) <= MaxRows
          /\ c.next_oid <= MaxOrders + 1
          /\ ledger' = c.ledger
          /\ stats_md' = c.stats_md
          /\ resting' = c.resting
          /\ next_oid' = c.next_oid
          /\ critical' = (critical \/ c.out = "critical:append_ledger")
          /\ last_op' = [op |-> "entry_cycle", out |-> OutKind(c.out)]
    /\ todo' = IF OutKind(entry_cycle(Ctx, Head(jobs).arg, inp).out) = "ok"
               THEN Tail(jobs) ELSE <<>>
    /\ subscribed_tickers' = LoopTop(subscribed_tickers, positions, Tail(jobs))
    /\ UNCHANGED <<aside, series_tickers, paper_trade, now, positions, orderbooks, kalshi_rx, exposure,
                   settled, mkt>>

\* a variant of EntryCall that subscribes the market of every resting order
\* when the cycle has returned
EntryCall_subscribe_order(jobs, inp) ==
    /\ jobs # <<>>
    /\ Head(jobs).op = "entry"
    /\ LET c == entry_cycle(Ctx, Head(jobs).arg, inp)
       IN /\ Fired(inp.fail, c.out)
          /\ Len(c.ledger) <= MaxRows
          /\ c.next_oid <= MaxOrders + 1
          /\ ledger' = c.ledger
          /\ stats_md' = c.stats_md
          /\ resting' = c.resting
          /\ next_oid' = c.next_oid
          /\ critical' = (critical \/ c.out = "critical:append_ledger")
          /\ last_op' = [op |-> "entry_cycle", out |-> OutKind(c.out)]
    /\ todo' = Tail(jobs)
    /\ subscribed_tickers' =
           LoopTop(subscribed_tickers, positions, Tail(jobs))
               \cup {resting'[i].ticker : i \in 1..Len(resting')}
    /\ UNCHANGED <<aside, series_tickers, paper_trade, now, positions, orderbooks, kalshi_rx, exposure,
                   settled, mkt>>

\* main.rs 73-79 and 169-175: one call of entry_cycle, the first of jobs
EntryCall(jobs, inp) ==
    /\ jobs # <<>>
    /\ Head(jobs).op = "entry"
    /\ LET c == entry_cycle(Ctx, Head(jobs).arg, inp)
       IN /\ Fired(inp.fail, c.out)
          /\ Len(c.ledger) <= MaxRows
          /\ c.next_oid <= MaxOrders + 1
          /\ ledger' = c.ledger
          /\ stats_md' = c.stats_md
          /\ resting' = c.resting
          /\ next_oid' = c.next_oid
          /\ critical' = (critical \/ c.out = "critical:append_ledger")
          /\ last_op' = [op |-> "entry_cycle", out |-> OutKind(c.out)]
    /\ todo' = Tail(jobs)
    /\ subscribed_tickers' = LoopTop(subscribed_tickers, positions, Tail(jobs))
    /\ UNCHANGED <<aside, series_tickers, paper_trade, now, positions, orderbooks, kalshi_rx, exposure,
                   settled, mkt>>

\* the startup cycles, and the cycles of a tick after the first
RunEntry(inp) == EntryCall(todo, inp)

\* main.rs 158-176: the entry timer fires; the first cycle of the tick
EntryTimerTick(inp) == todo = <<>> /\ EntryCall(EntryJobs, inp)

Orderings(S) ==
    {q \in [1..Cardinality(S) -> S] : \A i, j \in 1..Cardinality(S) : i # j => q[i] # q[j]}

\* main.rs 178-204: the exits are computed once, then executed one by one
ExitJobs(q) == [i \in 1..Len(q) |-> [op |-> "exit", arg |-> q[i]]]

\* main.rs 189-202: one call of execute_exit, the first of jobs, and the
\* unsubscribe after it
ExitCall(jobs, xin) ==
    /\ jobs # <<>>
    /\ Head(jobs).op = "exit"
    /\ LET ticker == Head(jobs).arg[1]
           c == execute_exit(Ctx, ticker, Head(jobs).arg[2], xin)
       IN /\ c.next_oid <= MaxOrders + 1
          /\ ledger' = c.ledger
          /\ stats_md' = c.stats_md
          /\ resting' = c.resting
          /\ next_oid' = c.next_oid
          /\ positions' = c.positions
          /\ orderbooks' = c.orderbooks
          /\ last_op' = [op |-> "execute_exit", out |-> OutKind(c.out)]
          /\ subscribed_tickers' =
                 LoopTop(subscribed_tickers \ {ticker}, c.positions, Tail(jobs))
    /\ todo' = Tail(jobs)
    /\ UNCHANGED <<aside, series_tickers, paper_trade, now, kalshi_rx, exposure, settled, mkt, critical>>

\* main.rs 189-202: the next exit of the tick
RunExit(xin) == ExitCall(todo, xin)

\* main.rs 178-188: the position timer fires with an exit signalled; the
\* signals are computed once, in the order the map yields them
PositionTimerTick ==
    /\ todo = <<>>
    /\ positions # {}
    /\ check_exits(positions, orderbooks) # {}
    /\ \E q \in Orderings(check_exits(positions, orderbooks)) : todo' = ExitJobs(q)
    /\ UNCHANGED <<aside, series_tickers, paper_trade, now, ledger, stats_md, positions, orderbooks,
                   subscribed_tickers, kalshi_rx, resting, exposure, settled, next_oid,
                   mkt, critical, last_op>>

\* a variant of KalshiRecv that takes an event while a handler is running
KalshiRecv_mid_handler ==
    /\ kalshi_rx # <<>>
    /\ LET event == Head(kalshi_rx)
       IN /\ positions' =
                 IF event.type = "Fill" THEN on_fill(positions, event.fill)
                 ELSE IF event.type = "MarketLifecycle"
                         /\ event.status \in {"settled", "finalized"}
                      THEN clear_position_positions(positions, event.ticker)
                      ELSE positions
          /\ orderbooks' =
                 IF event.type = "Orderbook"
                 THEN on_orderbook_update(orderbooks, event.update)
                 ELSE IF event.type = "MarketLifecycle"
                         /\ event.status \in {"settled", "finalized"}
                         /\ MapGet(positions, event.ticker) # None
                      THEN clear_position_orderbooks(orderbooks, event.ticker)
                      ELSE orderbooks
          /\ subscribed_tickers' =
                 LoopTop(IF event.type = "Fill"
                         THEN subscribed_tickers \cup {event.fill.ticker}
                         ELSE IF event.type = "MarketLifecycle"
                                 /\ event.status \in {"settled", "finalized"}
                                 /\ MapGet(positions, event.ticker) # None
                              THEN subscribed_tickers \ {event.ticker}
                              ELSE subscribed_tickers,
                         positions', <<>>)
          /\ last_op' = last_op
    /\ kalshi_rx' = Tail(kalshi_rx)
    /\ UNCHANGED <<aside, series_tickers, paper_trade, now, ledger, stats_md, todo, resting, exposure,
                   settled, next_oid, mkt, critical>>

\* main.rs 95-151
KalshiRecv ==
    /\ todo = <<>>
    /\ kalshi_rx # <<>>
    /\ LET event == Head(kalshi_rx)
       IN /\ positions' =
                 IF event.type = "Fill" THEN on_fill(positions, event.fill)
                 ELSE IF event.type = "MarketLifecycle"
                         /\ event.status \in {"settled", "finalized"}
                      THEN clear_position_positions(positions, event.ticker)
                      ELSE positions
          /\ orderbooks' =
                 IF event.type = "Orderbook"
                 THEN on_orderbook_update(orderbooks, event.update)
                 ELSE IF event.type = "MarketLifecycle"
                         /\ event.status \in {"settled", "finalized"}
                         /\ MapGet(positions, event.ticker) # None
                      THEN clear_position_orderbooks(orderbooks, event.ticker)
                      ELSE orderbooks
          /\ subscribed_tickers' =
                 LoopTop(IF event.type = "Fill"
                         THEN subscribed_tickers \cup {event.fill.ticker}
                         ELSE IF event.type = "MarketLifecycle"
                                 /\ event.status \in {"settled", "finalized"}
                                 /\ MapGet(positions, event.ticker) # None
                              THEN subscribed_tickers \ {event.ticker}
                              ELSE subscribed_tickers,
                         positions', <<>>)
          /\ last_op' = last_op
    /\ kalshi_rx' = Tail(kalshi_rx)
    /\ UNCHANGED <<aside, series_tickers, paper_trade, now, ledger, stats_md, todo, resting, exposure,
                   settled, next_oid, mkt, critical>>

(***************************************************************************)
(* The outside: the clock, the exchange and its stream                     *)
(***************************************************************************)
AdvanceClock ==
    /\ \E i \in 1..Len(ledger) : ledger[i].result = "pending"
    /\ \E d \in TimeSteps : now + d <= MaxNow /\ now' = now + d
    /\ UNCHANGED <<aside, series_tickers, paper_trade, ledger, stats_md, positions, orderbooks,
                   subscribed_tickers, kalshi_rx, todo, resting, exposure,
                   settled, next_oid, mkt, critical, last_op>>

\* websocket.rs 227-250: the fill notice of an order, as ws_loop parses it
FillEventOf(o) ==
    [type |-> "Fill",
     fill |-> [order_id |-> o.order_id, ticker |-> o.ticker, side |-> o.side,
               shares |-> o.count,
               price_cents |-> IF o.side = "Yes" THEN o.yes_price
                               ELSE 100 - o.yes_price]]

\* a resting order executes; the stream delivers its fill notice or not
ExchangeFill ==
    /\ \E i \in 1..Len(resting) : \E deliver \in BOOLEAN :
        LET o == resting[i]
        IN /\ resting' = SelectSeq(resting, LAMBDA r : r.order_id # o.order_id)
           /\ exposure' = IF o.action = "buy" THEN exposure \cup {o.ticker}
                          ELSE exposure \ {o.ticker}
           /\ IF deliver /\ o.action = "buy"
              THEN /\ Len(kalshi_rx) < MaxQueue
                   /\ kalshi_rx' = Append(kalshi_rx, FillEventOf(o))
              ELSE kalshi_rx' = kalshi_rx
    /\ UNCHANGED <<aside, series_tickers, paper_trade, now, ledger, stats_md, positions, orderbooks,
                   subscribed_tickers, todo, settled, next_oid, mkt, critical,
                   last_op>>

\* an order placed on the account by hand executes: the stream reports its fill
ForeignFill ==
    /\ \E i \in 1..Len(series_tickers) :
        LET s == series_tickers[i]
            t == <<s, mkt[s]>>
        IN /\ mkt[s] <= NumMarkets
           /\ next_oid <= MaxOrders
           /\ t \notin exposure
           /\ Len(kalshi_rx) < MaxQueue
           /\ next_oid' = next_oid + 1
           /\ exposure' = exposure \cup {t}
           /\ kalshi_rx' = Append(kalshi_rx,
                  FillEventOf([order_id |-> <<"ord", next_oid>>, ticker |-> t,
                               side |-> "No", count |-> 1, yes_price |-> 30]))
    /\ UNCHANGED <<aside, series_tickers, paper_trade, now, ledger, stats_md, positions, orderbooks,
                   subscribed_tickers, todo, resting, settled, mkt, critical, last_op>>

\* the open market of a series expires and settles; the next one opens
MarketSettles ==
    /\ \E i \in 1..Len(series_tickers) : \E rev \in Revenues :
       \E notice \in LifecycleStatuses \cup {"-"} :
        LET s == series_tickers[i]
            t == <<s, mkt[s]>>
        IN /\ mkt[s] <= NumMarkets
           /\ mkt' = [mkt EXCEPT ![s] = @ + 1]
           /\ resting' = SelectSeq(resting, LAMBDA r : r.ticker # t)
           /\ exposure' = exposure \ {t}
           /\ settled' = IF t \in exposure
                         THEN settled \cup {[ticker |-> t, revenue |-> rev]}
                         ELSE settled
           /\ (t \notin exposure => rev = 0)
           /\ IF notice # "-"
              THEN /\ t \in subscribed_tickers
                   /\ Len(kalshi_rx) < MaxQueue
                   /\ kalshi_rx' = Append(kalshi_rx,
                          [type |-> "MarketLifecycle", ticker |-> t, status |-> notice])
              ELSE kalshi_rx' = kalshi_rx
    /\ UNCHANGED <<aside, series_tickers, paper_trade, now, ledger, stats_md, positions, orderbooks,
                   subscribed_tickers, todo, next_oid, critical, last_op>>

\* the stream delivers the book of a subscribed market
StreamOrderbook ==
    /\ \E t \in subscribed_tickers \cap position_tickers(positions) : \E b \in Books :
        /\ Len(kalshi_rx) < MaxQueue
        /\ kalshi_rx' = Append(kalshi_rx,
               [type |-> "Orderbook", update |-> [ticker |-> t, yes |-> b.yes, no |-> b.no]])
    /\ UNCHANGED <<aside, series_tickers, paper_trade, now, ledger, stats_md, positions, orderbooks,
                   subscribed_tickers, todo, resting, exposure, settled, next_oid,
                   mkt, critical, last_op>>

vars == <<aside, series_tickers, paper_trade, now, ledger, stats_md, positions, orderbooks,
          subscribed_tickers, kalshi_rx, todo, resting, exposure, settled,
          next_oid, mkt, critical, last_op>>

Next ==
    \/ \E inp \in CycleInputs : RunEntry(inp)
    \/ \E inp \in CycleInputs : EntryTimerTick(inp)
    \/ PositionTimerTick
    \/ \E xin \in ExitInputs : RunExit(xin)
    \/ KalshiRecv
    \/ AdvanceClock
    \/ ExchangeFill
    \/ ForeignFill
    \/ MarketSettles
    \/ StreamOrderbook

Spec == Init /\ [][Next]_vars

(***************************************************************************)
(* The call the loop makes next.  At the wait point (todo empty) the entry *)
(* timer may fire and call entry_cycle for the first series; inside a      *)
(* handler the next call is the head of todo.                              *)
(***************************************************************************)
AtEntry == todo = <<>> \/ Head(todo).op = "entry"
EntrySeries == IF todo = <<>> THEN series_tickers[1] ELSE Head(todo).arg
Cycle(inp) == entry_cycle(Ctx, EntrySeries, inp)

AtExit == todo # <<>> /\ Head(todo).op = "exit"
Exit(xin) == execute_exit(Ctx, Head(todo).arg[1], Head(todo).arg[2], xin)

Range(s) == {s[i] : i \in 1..Len(s)}
Count(s, x) == Cardinality({i \in 1..Len(s) : s[i] = x})
IsTerminal(row) == row.result # "pending"

(***************************************************************************)
(* Properties                                                              *)
(***************************************************************************)

\* C1: at every point of a run, in paper or live mode, the ledger holds at
\* most one row with result "pending" for any one market ticker.
C1_OnePendingPerTicker ==
    \A i, j \in 1..Len(ledger) :
        (i # j /\ LineIsPending(ledger[i]) /\ LineIsPending(ledger[j]))
            => ledger[i].ticker # ledger[j].ticker

\* C2: in every reachable ledger each terminal row's cumulative pnl is the
\* cumulative pnl of the previous terminal row plus its own pnl (its own pnl
\* for the first terminal row).
C2_CumulativeChain ==
    \A i \in 1..Len(ledger) :
        IsTerminal(ledger[i]) =>
            LET j == LastIndex({k \in 1..(i - 1) : IsTerminal(ledger[k])})
            IN ledger[i].cumulative_cents =
                   (IF j = 0 THEN 0 ELSE ledger[j].cumulative_cents)
                   + ledger[i].pnl_cents

\* C3: when the settlement step of entry_cycle finds the most recent pending
\* row without a settlement, then if the row is more than 30 minutes old it is
\* rewritten with result "unknown" and pnl 0, its cumulative pnl unchanged, and
\* the cycle goes on to the risk gate; if it is 30 minutes old or younger it is
\* left as it is.
C3_ZombieCleanup ==
    \A inp \in CycleInputs :
        LET c0 == StepCancel(Ctx, inp)
            i == LastIndex({k \in 1..Len(c0.ledger) : LineIsPending(c0.ledger[k])})
        IN (/\ AtEntry
            /\ ~has_position_for_series(positions, EntrySeries)
            /\ c0.st = "run"
            /\ i # 0
            /\ inp.fail \notin {"read_ledger", "settlements", "settle_last_trade",
                                "read_ledger2"}
            /\ Settlements(settled, c0.ledger[i].ticker) = None)
           => LET c == Cycle(inp)
                  old == c0.ledger[i]
              IN IF now - old.timestamp > 30
                 THEN /\ c.ledger[i] = [old EXCEPT !.result = "unknown"]
                      /\ "balance" \in Range(c.calls)
                 ELSE c.ledger[i] = old

\* C4: once a live order has been placed and its ledger append has failed, the
\* daemon runs no further entry cycle (and so places no further order).
C4_FatalNotRetried ==
    [][critical => ~(\E inp \in CycleInputs : RunEntry(inp) \/ EntryTimerTick(inp))]_vars

\* C5 as stated: if an Exchange call of entry_cycle fails, the cycle ends at
\* once with that error, no later call is made, no order is placed, and the
\* ledger and the resting orders are as they were when the cycle began.
C5_AbortLeavesAllAsBefore ==
    \A inp \in CycleInputs :
        AtEntry =>
            LET c == Cycle(inp)
            IN (/\ inp.fail \in ExchangeCalls
                /\ Count(c.calls, inp.fail) >=
                       (IF inp.fail = "cancel_order" THEN inp.k ELSE 1))
               => /\ c.out = "err:" \o inp.fail
                  /\ c.calls[Len(c.calls)] = inp.fail
                  /\ c.next_oid = next_oid
                  /\ c.ledger = ledger
                  /\ c.resting = resting

\* C5 amended: if an Exchange call of entry_cycle fails, the cycle ends at once
\* with that error, no later call is made, no order is placed and no row is
\* appended; what the cycle did before the failing call stays done: an order it
\* cancelled stays cancelled with its row marked "cancelled", and the pending
\* row it settled or cleaned up stays rewritten.
C5_AbortKeepsEarlierSteps ==
    \A inp \in CycleInputs :
        AtEntry =>
            LET c == Cycle(inp)
            IN (/\ inp.fail \in ExchangeCalls
                /\ Count(c.calls, inp.fail) >=
                       (IF inp.fail = "cancel_order" THEN inp.k ELSE 1))
               => /\ c.out = "err:" \o inp.fail
                  /\ c.calls[Len(c.calls)] = inp.fail
                  /\ c.next_oid = next_oid
                  /\ Range(c.resting) \subseteq Range(resting)
                  /\ Len(c.ledger) = Len(ledger)
                  /\ \A i \in 1..Len(ledger) :
                        c.ledger[i] # ledger[i] =>
                            /\ LineIsPending(ledger[i])
                            /\ \/ /\ c.ledger[i] = [ledger[i] EXCEPT !.result = "cancelled"]
                                  /\ \E o \in Range(resting) \ Range(c.resting) :
                                         o.order_id = ledger[i].order_id
                               \/ /\ c.ledger[i].result \in {"win", "loss", "unknown"}
                                  /\ \A j \in (i+1)..Len(ledger) : IsTerminal(c.ledger[j])

\* C5: an entry cycle has just ended with the error of an Exchange call, after
\* it had cancelled a resting order
C5_Witness ==
    /\ last_op = [op |-> "entry_cycle", out |-> "err:exchange"]
    /\ \E i \in 1..Len(ledger) : ledger[i].result = "cancelled"

\* C6: in live mode entry_cycle appends a row only after place_order has
\* succeeded, as the last thing it does, and the row is pending and carries the
\* id of the order the exchange accepted; if place_order fails the cycle returns
\* that error with no row appended and no order resting.
C6_PlaceBeforeAppend ==
    \A inp \in CycleInputs :
        (AtEntry /\ ~paper_trade) =>
            LET c == Cycle(inp)
                n == Len(c.ledger)
            IN /\ n \in {Len(ledger), Len(ledger) + 1}
               /\ n > Len(ledger) =>
                     /\ c.out = "ok:live"
                     /\ c.calls[Len(c.calls)] = "place_order"
                     /\ c.ledger[n].result = "pending"
                     /\ \E o \in Range(c.resting) \ Range(resting) :
                            o.order_id = c.ledger[n].order_id /\ o.action = "buy"
               /\ c.out = "err:place_order" =>
                     /\ inp.fail = "place_order"
                     /\ n = Len(ledger)
                     /\ Range(c.resting) \subseteq Range(resting)

\* C6: a live cycle has placed an order and appended its row
C6_Witness ==
    /\ ~paper_trade
    /\ last_op = [op |-> "entry_cycle", out |-> "ok"]
    /\ \E i \in 1..Len(ledger) : \E o \in Range(resting) :
           LineIsPending(ledger[i]) /\ ledger[i].order_id = o.order_id

\* C7: in execute_exit, once the sell step is past, the position and its cached
\* book are removed before the call returns, whatever fails in the ledger or
\* stats steps.
C7_ExitAlwaysClears ==
    \A xin \in ExitInputs :
        AtExit =>
            LET c == Exit(xin)
                ticker == Head(todo).arg[1]
            IN c.out \notin {"noop", "err:sell_order"} =>
                   /\ MapGet(c.positions, ticker) = None
                   /\ MapGet(c.orderbooks, ticker) = None

\* C8: when paper_trade is true, entry_cycle never calls place_order and the row
\* it appends carries a locally made order id, and execute_exit never calls
\* sell_order: neither puts an order on the exchange.
C8_PaperPlacesNoOrder ==
    paper_trade =>
        /\ \A inp \in CycleInputs :
               AtEntry =>
                   LET c == Cycle(inp)
                   IN /\ "place_order" \notin Range(c.calls)
                      /\ Range(c.resting) \subseteq Range(resting)
                      /\ c.next_oid = next_oid
                      /\ Len(c.ledger) > Len(ledger) =>
                             c.ledger[Len(c.ledger)].order_id[1] = "paper"
        /\ \A xin \in ExitInputs :
               AtExit =>
                   LET c == Exit(xin)
                   IN /\ "sell_order" \notin Range(c.calls)
                      /\ c.resting = resting
                      /\ c.next_oid = next_oid

\* C8: in paper mode a row has been appended and an exit has been executed
C8_Witness ==
    /\ paper_trade
    /\ last_op = [op |-> "execute_exit", out |-> "ok"]
    /\ \E i \in 1..Len(ledger) :
           ledger[i].order_id[1] = "paper"
           /\ ledger[i].result \in {"exit_take_profit", "exit_stop_loss"}

PMTickers == {<<"A", 1>>, <<"B", 1>>}
PMShares == {1, 3}
PMEntries == {30}

\* the levels of one side of a snapshot, as <<price, quantity>>, in the
\* order the exchange sent them
YesLevels ==
    {<<>>, << <<42, 1>> >>, << <<35, 1>>, <<55, 2>> >>, << <<50, 1>>, <<35, 2>> >>,
     << <<5, 1>> >>, << <<10, 1>>, <<5, 1>> >>}
NoLevels == {<<>>, << <<50, 1>>, <<42, 2>> >>, << <<10, 1>> >>}

PMFills ==
    {[ticker |-> t, side |-> sd, shares |-> n, price_cents |-> e,
      order_id |-> <<"ord", 1>>] :
        t \in PMTickers, sd \in {"Yes", "No"}, n \in PMShares, e \in PMEntries}

PMUpdates == {[ticker |-> t, yes |-> y, no |-> n] :
                 t \in PMTickers, y \in YesLevels, n \in NoLevels}

PMInit ==
    /\ Init
    /\ paper_trade = TRUE

PMRest == <<aside, series_tickers, paper_trade, now, ledger, stats_md, subscribed_tickers,
            kalshi_rx, todo, resting, exposure, settled, next_oid, mkt, critical>>

PMFill(fill) ==
    /\ positions' = on_fill(positions, fill)
    /\ last_op' = [op |-> "on_fill", out |-> <<>>]
    /\ UNCHANGED <<orderbooks, PMRest>>

PMBook(update) ==
    /\ orderbooks' = on_orderbook_update(orderbooks, update)
    /\ last_op' = [op |-> "on_orderbook_update", out |-> <<>>]
    /\ UNCHANGED <<positions, PMRest>>

PMClear(ticker) ==
    /\ positions' = clear_position_positions(positions, ticker)
    /\ orderbooks' = clear_position_orderbooks(orderbooks, ticker)
    /\ last_op' = [op |-> "clear_position", out |-> <<>>]
    /\ UNCHANGED PMRest

\* the sides a message may carry: none, one level, a level after a short one
YesArrays == {None, Some(<< <<42, 1>> >>), Some(<< <<7>>, <<42, 1>> >>)}
NoArrays == {None, Some(<< <<50, 1>>, <<42, 2>> >>)}
PMMessages ==
    {[type |-> ty, market_ticker |-> t, yes |-> y, no |-> n] :
        ty \in {"orderbook_snapshot", "orderbook_delta", "subscribed"},
        t \in PMTickers, y \in YesArrays, n \in NoArrays}

\* websocket.rs 119-121 and main.rs 97-103: a text frame is parsed and the
\* update it gives is handed to the PositionManager
PMMessage(m) ==
    /\ parse_kalshi_message(m) # None
    /\ orderbooks' = on_orderbook_update(orderbooks, parse_kalshi_message(m)[1])
    /\ last_op' = [op |-> "orderbook_message", out |-> m]
    /\ UNCHANGED <<positions, PMRest>>

\* check_exits takes &self: it returns its list and writes nothing
PMCheckExits ==
    /\ last_op' = [op |-> "check_exits", out |-> check_exits(positions, orderbooks)]
    /\ UNCHANGED <<positions, orderbooks, PMRest>>

\* the three readers of the exit price, called for one ticker
PMQuote(ticker) ==
    /\ last_op' = [op |-> "quote",
                   out |-> [ticker |-> ticker,
                            pnl |-> unrealized_pnl_per_share(positions, orderbooks, ticker),
                            order |-> build_exit_order(positions, orderbooks, ticker),
                            event |-> build_exit_event(positions, orderbooks, ticker,
                                                       "TakeProfit")]]
    /\ UNCHANGED <<positions, orderbooks, PMRest>>

PMNext ==
    \/ \E fill \in PMFills : PMFill(fill)
    \/ \E update \in PMUpdates : PMBook(update)
    \/ \E ticker \in PMTickers : PMClear(ticker)
    \/ PMCheckExits
    \/ \E ticker \in PMTickers : PMQuote(ticker)
    \/ \E m \in PMMessages : PMMessage(m)

PMSpec == PMInit /\ [][PMNext]_vars

\* the bid levels of the side a position holds
HeldLevels(p, ob) == IF p.side = "Yes" THEN ob.yes ELSE ob.no

\* C11: unrealized_pnl_per_share, build_exit_order and build_exit_event use
\* one price rule.  When the ticker has a position, a cached book and at least
\* one level on the held side, the exit price of all three is a price of one
\* of those levels that no other level exceeds, wherever it stands in the
\* list; the P&L per share is that price minus the entry price, and the P&L
\* of the event is the P&L per share times the shares.  When the position, the
\* book or the levels of the held side are missing, all three return None.
C11_OnePriceRule ==
    last_op.op = "quote" =>
        LET t == last_op.out.ticker
            p == MapGet(positions, t)
            ob == MapGet(orderbooks, t)
            r == last_op.out
        IN IF p = None \/ ob = None
           THEN r.pnl = None /\ r.order = None /\ r.event = None
           ELSE LET levels == HeldLevels(p[1], ob[1])
                IN IF levels = <<>>
                   THEN r.pnl = None /\ r.order = None /\ r.event = None
                   ELSE \E i \in 1..Len(levels) :
                          LET price == levels[i][1]
                              per_share == price - p[1].entry_price_cents
                          IN /\ \A j \in 1..Len(levels) : levels[j][1] <= price
                             /\ r.pnl = Some(per_share)
                             /\ r.order # None /\ r.order[1].price_cents = price
                             /\ r.order[1].shares = p[1].shares
                             /\ r.order[1].side = p[1].side
                             /\ r.event # None /\ r.event[1].exit_price_cents = price
                             /\ r.event[1].pnl_cents = per_share * p[1].shares

\* three shares entered at 30 are quoted at 42: 12 a share, 36 in all; the
\* other ticker's best level of the held side is the second of its list
C11_Witness ==
    /\ last_op.op = "quote"
    /\ last_op.out.pnl = Some(12)
    /\ last_op.out.event # None /\ last_op.out.event[1].pnl_cents = 36
    /\ \E p \in positions, ob \in orderbooks :
          /\ p.ticker = ob.ticker /\ p.ticker # last_op.out.ticker
          /\ Len(HeldLevels(p, ob)) = 2
          /\ HeldLevels(p, ob)[1][1] < HeldLevels(p, ob)[2][1]

\* C12: check_exits returns, for every open ticker whose P&L per share can
\* be computed, TakeProfit exactly when the P&L is at least tp_cents and
\* StopLoss exactly when it is below tp_cents and at most -sl_cents; it
\* returns nothing else, so at most one reason per ticker and nothing for a
\* ticker without a position, a cached book or a level on the held side.
C12_ExitSignals ==
    last_op.op = "check_exits" =>
        /\ \A t \in PMTickers :
             LET pnl == unrealized_pnl_per_share(positions, orderbooks, t)
                 open == t \in position_tickers(positions)
             IN /\ <<t, "TakeProfit">> \in last_op.out
                      <=> (open /\ pnl # None /\ pnl[1] >= tp_cents)
                /\ <<t, "StopLoss">> \in last_op.out
                      <=> (open /\ pnl # None /\ pnl[1] < tp_cents /\ pnl[1] <= -sl_cents)
                /\ ~(<<t, "TakeProfit">> \in last_op.out /\ <<t, "StopLoss">> \in last_op.out)
        /\ last_op.out \subseteq (PMTickers \X {"TakeProfit", "StopLoss"})

\* one call returns a take-profit at exactly tp_cents for one ticker and a
\* stop-loss at exactly -sl_cents for the other
C12_Witness ==
    /\ last_op.op = "check_exits"
    /\ \E t, u \in PMTickers :
          /\ <<t, "TakeProfit">> \in last_op.out
          /\ unrealized_pnl_per_share(positions, orderbooks, t) = Some(tp_cents)
          /\ <<u, "StopLoss">> \in last_op.out
          /\ unrealized_pnl_per_share(positions, orderbooks, u) = Some(-sl_cents)

\* C26: clear(ticker) removes both the position and the cached book of that
\* ticker and is idempotent: clearing twice leaves the same state as clearing
\* once, clearing a ticker with no position still removes its cached book, and
\* the positions and books of all other tickers are unchanged.
C26_ClearIdempotent ==
    \A t \in PMTickers :
        LET pos1 == clear_position_positions(positions, t)
            obs1 == clear_position_orderbooks(orderbooks, t)
        IN /\ MapGet(pos1, t) = None
           /\ MapGet(obs1, t) = None
           /\ clear_position_positions(pos1, t) = pos1
           /\ clear_position_orderbooks(obs1, t) = obs1
           /\ \A u \in PMTickers \ {t} :
                 /\ MapGet(pos1, u) = MapGet(positions, u)
                 /\ MapGet(obs1, u) = MapGet(orderbooks, u)
           /\ pos1 \subseteq positions /\ obs1 \subseteq orderbooks

\* one ticker has a cached book and no position, the other a position and a
\* book: clearing the first removes a book alone and leaves the second as it is
C26_Witness ==
    \E t, u \in PMTickers :
        /\ t # u
        /\ MapGet(positions, t) = None /\ MapGet(orderbooks, t) # None
        /\ MapGet(positions, u) # None /\ MapGet(orderbooks, u) # None
        /\ clear_position_orderbooks(orderbooks, t) # orderbooks
        /\ clear_position_positions(positions, t) = positions

\* C27: after any sequence of order-book updates the book cached for a ticker
\* is the most recent update received for it, both sides replaced wholesale (a
\* side missing from the update becomes empty, nothing is merged from the
\* earlier book); an update changes neither the cached book of another ticker
\* nor any position, and is cached whether or not the ticker has a position.
C27_LatestBookWins ==
    [][last_op'.op = "orderbook_message" =>
          LET m == last_op'.out
              t == m.market_ticker
              ob == MapGet(orderbooks', t)
          IN /\ ob # None
             /\ Cardinality({b \in orderbooks' : b.ticker = t}) = 1
             /\ m.yes = None => ob[1].yes = <<>>
             /\ m.no = None => ob[1].no = <<>>
             /\ m.yes # None =>
                   ob[1].yes = SelectSeq(m.yes[1], LAMBDA l : Len(l) = 2)
             /\ m.no # None => ob[1].no = m.no[1]
             /\ \A u \in PMTickers \ {t} : MapGet(orderbooks', u) = MapGet(orderbooks, u)
             /\ positions' = positions]_vars

\* a message without a No side has been cached for a ticker that has no
\* position, while the other ticker holds a position and a book with a No side
C27_Witness ==
    /\ last_op.op = "orderbook_message"
    /\ last_op.out.no = None /\ last_op.out.yes # None
    /\ MapGet(positions, last_op.out.market_ticker) = None
    /\ MapGet(orderbooks, last_op.out.market_ticker)
         = Some([ticker |-> last_op.out.market_ticker, yes |-> << <<42, 1>> >>, no |-> <<>>])
    /\ \E ob \in orderbooks : ob.ticker # last_op.out.market_ticker /\ ob.no # <<>>
    /\ positions # {}

\* what one call may do to the rows: every row stays at its place, and a row
\* that differs afterwards was pending, is terminal now, and differs in its
\* result, P&L and cumulative P&L only
RowsOnlyClosed(before, after) ==
    /\ Len(after) >= Len(before)
    /\ \A i \in 1..Len(before) :
          after[i] # before[i] =>
              /\ LineIsPending(before[i])
              /\ IsTerminal(after[i])
              /\ after[i].result \in {"win", "loss", "unknown", "cancelled",
                                      "exit_take_profit", "exit_stop_loss"}
              /\ after[i] = [before[i] EXCEPT !.result = after[i].result,
                                              !.pnl_cents = after[i].pnl_cents,
                                              !.cumulative_cents = after[i].cumulative_cents]

\* C20: a ledger row is changed only while its result is "pending" and only
\* to a terminal result (win, loss, unknown, cancelled, exit_*), hence at most
\* once; a terminal row is never changed again, and no call removes or
\* reorders rows.  Stated for the two callers of every ledger mutation, an
\* entry cycle and an exit, whatever their inputs.
C20_RowsClosedOnce ==
    /\ AtEntry => \A inp \in CycleInputs : RowsOnlyClosed(ledger, Cycle(inp).ledger)
    /\ AtExit => \A xin \in ExitInputs : RowsOnlyClosed(ledger, Exit(xin).ledger)

\* an entry cycle closes a pending row of a ledger whose last row is terminal
C20_Witness ==
    /\ AtEntry
    /\ Len(ledger) = 2
    /\ LineIsPending(ledger[1]) /\ IsTerminal(ledger[2])
    /\ \E inp \in CycleInputs :
          /\ IsTerminal(Cycle(inp).ledger[1])
          /\ Cycle(inp).ledger[2] = ledger[2]

(***************************************************************************)
(* The ledger store on its own.  The four mutations are called in any      *)
(* order on the files the daemon finds at its start; each is two steps,    *)
(* the copy to the backup and the write of the primary, and the process    *)
(* may stop between the two or inside the write; what the files hold then *)
(* is what the next start of the daemon reads.                             *)
(***************************************************************************)
MaxLines == 5                   \* lines the primary may hold
Truncations == {2, 8}           \* pieces left of a line whose write was cut

StoreRows ==
    {[timestamp |-> 0, ticker |-> <<"A", 1>>, side |-> "yes", shares |-> 2,
      price |-> 40, result |-> "pending", pnl_cents |-> 0, cumulative_cents |-> 0,
      order_id |-> <<"ord", n>>] : n \in {1, 2}}

StoreOps ==
    {[NoOp EXCEPT !.name = "append_ledger", !.row = r] : r \in StoreRows}
    \cup {[NoOp EXCEPT !.name = "settle_last_trade",
                       !.settlement = [result |-> "win", pnl_cents |-> 100]]}
    \cup {[NoOp EXCEPT !.name = "cancel_trade", !.order_id = <<"ord", n>>] : n \in {1, 2}}
    \cup {[NoOp EXCEPT !.name = "record_early_exit",
                       !.exit = [ticker |-> <<"A", 1>>, reason |-> "TakeProfit",
                                 pnl_cents |-> 24]]}

\* a data line one of whose number cells was edited by hand
EditedLine ==
    [form |-> "cells", cols |-> 11, shares_ok |-> FALSE,
     row |-> [CHOOSE r \in StoreRows : r.order_id = <<"ord", 1>> EXCEPT !.result = "win"]]

StoreInit ==
    /\ MainInit
    /\ paper_trade = TRUE
    /\ primary \in {File(<<TextLine, HeaderLine, RuleLine>>), Missing, Unreadable,
                    File(<<HeaderLine, RuleLine, EditedLine>>)}
    /\ backup \in {Missing, File(<<HeaderLine, RuleLine>>)}
    /\ mut = NoMutation
    /\ Streaming

StoreRest == <<net_vars, series_tickers, paper_trade, now, ledger, stats_md, positions, orderbooks,
               subscribed_tickers, kalshi_rx, todo, resting, exposure, settled,
               next_oid, mkt, critical, last_op>>

\* a mutation is called and makes its copy
StoreCall(op) ==
    /\ mut.st \in {"idle", "done", "failed"}
    /\ op.name = "append_ledger" => Len(primary.lines) < MaxLines
    /\ backup' = BackupCopy(primary, backup)
    /\ mut' = [st |-> "copied", op |-> op, pre |-> primary]
    /\ UNCHANGED <<primary, StoreRest>>

\* std::fs::copy fails and the mutation returns its error
StoreCopyFails(op) ==
    /\ mut.st \in {"idle", "done", "failed"}
    /\ primary.st # "missing"
    /\ mut' = [st |-> "failed", op |-> op, pre |-> primary]
    /\ UNCHANGED <<primary, backup, StoreRest>>

\* the mutation writes the primary and returns
StoreWrite ==
    /\ mut.st = "copied"
    /\ LET w == WriteOf(mut.op, primary)
       IN IF w = None
          THEN /\ mut' = [mut EXCEPT !.st = "failed"]
               /\ UNCHANGED primary
          ELSE /\ mut' = [mut EXCEPT !.st = "done"]
               /\ primary' = w[1]
    /\ UNCHANGED <<backup, StoreRest>>

Prefix(seq, n) == SubSeq(seq, 1, n)
Cut(line, k) == [line EXCEPT !.cols = k]

\* what a stop of the process leaves of the write: nothing of it, or, of
\* std::fs::write, the truncated file with some of the new lines and possibly
\* a part of the next, or, of the append, a part of the new line
CrashOutcomes(op, prim, new) ==
    {prim}
    \cup (IF op.name = "append_ledger"
          THEN {File(Append(prim.lines, Cut(new.lines[Len(new.lines)], k))) :
                    k \in Truncations}
          ELSE {File(Prefix(new.lines, n)) : n \in 0..(Len(new.lines) - 1)}
               \cup {File(Append(Prefix(new.lines, n), Cut(new.lines[n + 1], k))) :
                        n \in {m \in 0..(Len(new.lines) - 1) :
                                  new.lines[m + 1].form = "cells"},
                        k \in Truncations})

\* the process stops after the copy, before or inside the write
StoreCrash ==
    /\ mut.st = "copied"
    /\ WriteOf(mut.op, primary) # None
    /\ WriteOf(mut.op, primary)[1].st = "ok"
    /\ primary' \in CrashOutcomes(mut.op, primary, WriteOf(mut.op, primary)[1])
    /\ mut' = [mut EXCEPT !.st = "crashed"]
    /\ UNCHANGED <<backup, StoreRest>>

StoreNext ==
    \/ \E op \in StoreOps : StoreCall(op)
    \/ \E op \in StoreOps : StoreCopyFails(op)
    \/ StoreWrite
    \/ StoreCrash

StoreSpec == StoreInit /\ [][StoreNext]_vars

\* C17: every ledger mutation first copies the primary over the backup and
\* only then writes the primary: while the write is still to come the backup
\* already equals the primary, and right after a completed mutation the
\* backup equals the ledger as it was immediately before that mutation.
C17_BackupIsPrevious ==
    /\ mut.st = "copied" /\ primary.st # "missing" => backup = primary /\ primary = mut.pre
    /\ mut.st = "done" => backup = mut.pre

\* record_early_exit has completed on a primary that holds a cancelled row,
\* and has changed it
C17_Witness ==
    /\ mut.st = "done"
    /\ mut.op.name = "record_early_exit"
    /\ primary # mut.pre
    /\ backup = mut.pre
    /\ \E k \in 1..Len(primary.lines) : primary.lines[k].row.result = "cancelled"

\* every data line of the file parses
WellFormed(file) ==
    /\ file.st = "ok"
    /\ \A k \in 1..Len(file.lines) :
          IsDataLine(file.lines[k]) => parse_line(file.lines[k]) # None

\* C18: if the process stops inside a ledger mutation, after the copy and
\* before or during the write of the primary, the next read_ledger returns
\* the complete rows of before the mutation or the complete rows of after it,
\* never fewer rows than before.
C18_CrashKeepsRows ==
    mut.st = "crashed" /\ WellFormed(mut.pre) =>
        LET r == read_ledger(primary, backup)
            before == parse_ledger_content(mut.pre.lines)
            after == parse_ledger_content(WriteOf(mut.op, mut.pre)[1].lines)
        IN r.ok /\ (r.rows = before \/ r.rows = after) /\ Len(r.rows) >= Len(before)

\* whether read_ledger turns to the backup: the primary cannot be read, or it
\* holds a data line and none of its data lines parses
FallsBack(prim) ==
    \/ prim.st # "ok"
    \/ /\ \E k \in 1..Len(prim.lines) : IsDataLine(prim.lines[k])
       /\ \A k \in 1..Len(prim.lines) :
             IsDataLine(prim.lines[k]) => parse_line(prim.lines[k]) = None

\* the lines of a file that parse to a row
RowLines(file) ==
    {k \in 1..Len(file.lines) :
        IsDataLine(file.lines[k]) /\ parse_line(file.lines[k]) # None}

\* C19: read_ledger returns the rows of the backup (its error when the backup
\* cannot be read) exactly when the primary is unreadable or holds at least
\* one data line and parses to no row; otherwise it returns the rows the
\* primary parses to, none for a primary without data lines.  The rows of a
\* file are those of its data lines that parse, in their order: a header, a
\* rule or a line without a leading bar never gives a row.
C19_ReadFallback ==
    LET r == read_ledger(primary, backup)
        from == IF FallsBack(primary) THEN backup ELSE primary
    IN /\ from.st # "ok" => ~r.ok
       /\ from.st = "ok" =>
             /\ r.ok
             /\ Len(r.rows) = Cardinality(RowLines(from))
             /\ \A i \in 1..Len(r.rows) :
                   \E k \in RowLines(from) :
                      /\ r.rows[i] = parse_line(from.lines[k])[1]
                      /\ Cardinality({j \in RowLines(from) : j <= k}) = i
       /\ ~FallsBack(primary) /\ data_lines(primary.lines) = 0 => r = Ok(<<>>)

\* the write of the primary was cut inside its only data line: the primary
\* holds a data line and no row, and read_ledger returns the row of the backup
C19_Witness ==
    /\ mut.st = "crashed"
    /\ primary.st = "ok" /\ data_lines(primary.lines) > 0
    /\ parse_ledger_content(primary.lines) = <<>>
    /\ backup.st = "ok" /\ Len(parse_ledger_content(backup.lines)) = 1
    /\ read_ledger(primary, backup) = Ok(parse_ledger_content(backup.lines))
    /\ \E k \in 1..Len(primary.lines) : ~IsDataLine(primary.lines[k])

(***************************************************************************)
(* The streaming tasks, the channels and the loop.  Each task is a state   *)
(* machine: connecting, connected, sending (it holds a parsed event and    *)
(* awaits room on its channel), notifying (ws_loop awaits room for its     *)
(* Disconnected notice), delay (the 5-second sleep) and stopped (it has    *)
(* returned).  The loop is at its wait point when todo is empty; a handler *)
(* is the list of its calls, engine calls and commands to enqueue, made    *)
(* one step each.  What an engine call does to the trading state is left   *)
(* out here.                                                               *)
(***************************************************************************)
EventCap == 1                   \* slots of an event channel (256 in main)
CmdCap == 1                     \* slots of the command channel (32 in connect)
MaxEvents == 3                  \* events a task parses in a run

Rx(task) == IF task = "kalshi" THEN kalshi_rx ELSE binance_rx

SetRx(task, q) ==
    /\ kalshi_rx' = IF task = "kalshi" THEN q ELSE kalshi_rx
    /\ binance_rx' = IF task = "binance" THEN q ELSE binance_rx

Event(task, type) == [n |-> Len(parsed[task]) + 1, type |-> type]

\* the event a task holds while it awaits room on its channel
InHand(task) ==
    IF ws[task] \in {"sending", "notifying"}
    THEN <<parsed[task][Len(parsed[task])]>>
    ELSE <<>>

Command(op) == [op |-> op, arg |-> <<"A", 1>>]
EngineCall(op) == [op |-> op, arg |-> <<"A", 1>>]

\* the calls of the handler of a protocol event, with the subscriptions the
\* top of the loop adds: none for an orderbook update, a subscribe for a
\* fill, an unsubscribe for a settled market, a subscribe per subscribed
\* ticker for Disconnected
EventJobs(task, event) ==
    IF task = "binance" THEN {<<>>}
    ELSE IF event.type = "Disconnected"
         THEN {<<>>, <<Command("subscribe")>>,
               <<Command("subscribe"), Command("subscribe")>>}
    ELSE {<<>>, <<Command("subscribe")>>, <<Command("unsubscribe")>>}

\* the calls of the two timer handlers: an entry cycle; an exit, the
\* unsubscribe after it and, when the position is still held, the subscribe
\* of the top of the loop
TimerJobs ==
    {<<EngineCall("entry")>>,
     <<EngineCall("exit"), Command("unsubscribe")>>,
     <<EngineCall("exit"), Command("unsubscribe"), Command("subscribe")>>}

NetInit ==
    /\ MainInit
    /\ paper_trade = TRUE
    /\ primary = File(<<HeaderLine, RuleLine>>)
    /\ backup = Missing
    /\ mut = NoMutation
    /\ ws = [task \in Tasks |-> "connecting"]
    /\ parsed = [task \in Tasks |-> <<>>]
    /\ received = [task \in Tasks |-> <<>>]
    /\ binance_rx = <<>>
    /\ cmd_rx = <<>>
    /\ shutdown = FALSE
    /\ stopped = FALSE
    /\ wire = {}

\* the trading state, which the steps of the tasks and channels leave alone
TradingState == <<store_vars, series_tickers, paper_trade, now, ledger, stats_md, positions,
                  orderbooks, subscribed_tickers, resting, exposure, settled, next_oid,
                  mkt, critical, last_op>>
NetRest == <<TradingState, wire>>

\* a variant of Connect whose command channel is made anew for each connection
Connect_new_channel(task, ok) ==
    /\ ws[task] = "connecting"
    /\ ws' = [ws EXCEPT ![task] = IF ok THEN "connected" ELSE "delay"]
    /\ cmd_rx' = IF task = "kalshi" /\ ok THEN <<>> ELSE cmd_rx
    /\ UNCHANGED <<parsed, received, kalshi_rx, binance_rx, shutdown, stopped,
                   todo, NetRest>>

\* connect_async returns
Connect(task, ok) ==
    /\ ws[task] = "connecting"
    /\ ws' = [ws EXCEPT ![task] = IF ok THEN "connected" ELSE "delay"]
    /\ UNCHANGED <<parsed, received, kalshi_rx, binance_rx, cmd_rx, shutdown, stopped,
                   todo, NetRest>>

\* read.next() yields a text message that parses to an event
Read(task) ==
    /\ ws[task] = "connected"
    /\ Len(parsed[task]) < MaxEvents
    /\ parsed' = [parsed EXCEPT ![task] = Append(@, Event(task, "data"))]
    /\ ws' = [ws EXCEPT ![task] = "sending"]
    /\ UNCHANGED <<received, kalshi_rx, binance_rx, cmd_rx, shutdown, stopped,
                   todo, NetRest>>

\* a variant of Deliver that discards the event when the channel is full
Deliver_try_send(task) ==
    /\ ws[task] = "sending"
    /\ IF stopped
       THEN /\ ws' = [ws EXCEPT ![task] = "stopped"]
            /\ UNCHANGED <<kalshi_rx, binance_rx>>
       ELSE /\ IF Len(Rx(task)) < EventCap
               THEN SetRx(task, Append(Rx(task), InHand(task)[1]))
               ELSE UNCHANGED <<kalshi_rx, binance_rx>>
            /\ ws' = [ws EXCEPT ![task] = "connected"]
    /\ UNCHANGED <<parsed, received, cmd_rx, shutdown, stopped, todo, NetRest>>

\* tx.send(event).await completes: an error when the receiver is gone, and
\* the task returns; else the event is enqueued once the channel has room
Deliver(task) ==
    /\ ws[task] = "sending"
    /\ IF stopped
       THEN /\ ws' = [ws EXCEPT ![task] = "stopped"]
            /\ UNCHANGED <<kalshi_rx, binance_rx>>
       ELSE /\ Len(Rx(task)) < EventCap
            /\ SetRx(task, Append(Rx(task), InHand(task)[1]))
            /\ ws' = [ws EXCEPT ![task] = "connected"]
    /\ UNCHANGED <<parsed, received, cmd_rx, shutdown, stopped, todo, NetRest>>

\* the connection ends: a read error, a close frame or the end of the stream
Fail(task) ==
    /\ ws[task] = "connected"
    /\ IF task = "kalshi"
       THEN /\ Len(parsed[task]) < MaxEvents
            /\ parsed' = [parsed EXCEPT ![task] = Append(@, Event(task, "Disconnected"))]
            /\ ws' = [ws EXCEPT ![task] = "notifying"]
            /\ wire' = {}
       ELSE /\ ws' = [ws EXCEPT ![task] = "delay"]
            /\ UNCHANGED <<parsed, wire>>
    /\ UNCHANGED <<received, kalshi_rx, binance_rx, cmd_rx, shutdown, stopped,
                   todo, TradingState>>

\* let _ = event_tx.send(KalshiWsEvent::Disconnected).await
Notify ==
    /\ ws["kalshi"] = "notifying"
    /\ IF stopped
       THEN UNCHANGED <<kalshi_rx, binance_rx>>
       ELSE /\ Len(kalshi_rx) < EventCap
            /\ SetRx("kalshi", Append(kalshi_rx, InHand("kalshi")[1]))
    /\ ws' = [ws EXCEPT !["kalshi"] = "delay"]
    /\ UNCHANGED <<parsed, received, cmd_rx, shutdown, stopped, todo, NetRest>>

\* the 5-second sleep is over
Delay(task) ==
    /\ ws[task] = "delay"
    /\ ws' = [ws EXCEPT ![task] = "connecting"]
    /\ UNCHANGED <<parsed, received, kalshi_rx, binance_rx, cmd_rx, shutdown, stopped,
                   todo, NetRest>>

\* cmd_rx.recv() yields a command and ws_loop writes it to the socket
TakeCmd(ok) ==
    /\ ws["kalshi"] = "connected"
    /\ cmd_rx # <<>>
    /\ cmd_rx' = Tail(cmd_rx)
    /\ IF ok
       THEN /\ wire' = IF Head(cmd_rx).op = "subscribe"
                       THEN wire \cup {Head(cmd_rx).arg}
                       ELSE wire \ {Head(cmd_rx).arg}
            /\ UNCHANGED <<ws, parsed>>
       ELSE /\ Len(parsed["kalshi"]) < MaxEvents
            /\ parsed' = [parsed EXCEPT !["kalshi"] =
                             Append(@, Event("kalshi", "Disconnected"))]
            /\ ws' = [ws EXCEPT !["kalshi"] = "notifying"]
            /\ wire' = {}
    /\ UNCHANGED <<received, kalshi_rx, binance_rx, shutdown, stopped, todo, TradingState>>

\* cmd_rx.recv() yields None: every sender is gone and the channel is empty
CmdClosed ==
    /\ ws["kalshi"] = "connected"
    /\ stopped
    /\ cmd_rx = <<>>
    /\ ws' = [ws EXCEPT !["kalshi"] = "stopped"]
    /\ UNCHANGED <<parsed, received, kalshi_rx, binance_rx, cmd_rx, shutdown, stopped,
                   todo, NetRest>>

\* the running handler makes its next engine call
LoopCall ==
    /\ ~stopped
    /\ todo # <<>>
    /\ Head(todo).op \in {"entry", "exit"}
    /\ todo' = Tail(todo)
    /\ UNCHANGED <<ws, parsed, received, kalshi_rx, binance_rx, cmd_rx, shutdown,
                   stopped, NetRest>>

\* the loop waits in cmd_tx.send(..).await with the command channel full
LoopWaitsToSend ==
    /\ ~stopped
    /\ todo # <<>>
    /\ Head(todo).op \in {"subscribe", "unsubscribe"}
    /\ ws["kalshi"] # "stopped"
    /\ Len(cmd_rx) = CmdCap

\* KalshiWsSender::subscribe / unsubscribe: let _ = self.cmd_tx.send(..).await
LoopSend ==
    /\ ~stopped
    /\ todo # <<>>
    /\ Head(todo).op \in {"subscribe", "unsubscribe"}
    /\ IF ws["kalshi"] = "stopped"
       THEN UNCHANGED cmd_rx
       ELSE /\ Len(cmd_rx) < CmdCap
            /\ cmd_rx' = Append(cmd_rx, Head(todo))
    /\ todo' = Tail(todo)
    /\ UNCHANGED <<ws, parsed, received, kalshi_rx, binance_rx, shutdown, stopped,
                   NetRest>>

\* select!: kalshi_rx.recv() or binance_rx.recv() is ready
LoopRecv(task) ==
    /\ ~stopped
    /\ todo = <<>>
    /\ Rx(task) # <<>>
    /\ received' = [received EXCEPT ![task] = Append(@, Head(Rx(task)))]
    /\ SetRx(task, Tail(Rx(task)))
    /\ todo' \in EventJobs(task, Head(Rx(task)))
    /\ UNCHANGED <<ws, parsed, cmd_rx, shutdown, stopped, NetRest>>

\* select!: entry_timer.tick() or position_timer.tick() is ready
LoopTimer ==
    /\ ~stopped
    /\ todo = <<>>
    /\ todo' \in TimerJobs
    /\ UNCHANGED <<ws, parsed, received, kalshi_rx, binance_rx, cmd_rx, shutdown,
                   stopped, NetRest>>

\* select!: shutdown_rx.changed() is ready and the value is true
LoopShutdown ==
    /\ ~stopped
    /\ todo = <<>>
    /\ shutdown
    /\ stopped' = TRUE
    /\ UNCHANGED <<ws, parsed, received, kalshi_rx, binance_rx, cmd_rx, shutdown,
                   todo, NetRest>>

\* SIGINT or SIGTERM arrives and the handler sends true
Signal ==
    /\ ~shutdown
    /\ shutdown' = TRUE
    /\ UNCHANGED <<ws, parsed, received, kalshi_rx, binance_rx, cmd_rx, stopped,
                   todo, NetRest>>

NetNext ==
    \/ \E task \in Tasks, ok \in BOOLEAN : Connect(task, ok)
    \/ \E task \in Tasks : Read(task)
    \/ \E task \in Tasks : Deliver(task)
    \/ \E task \in Tasks : Fail(task)
    \/ Notify
    \/ \E task \in Tasks : Delay(task)
    \/ \E ok \in BOOLEAN : TakeCmd(ok)
    \/ CmdClosed
    \/ LoopCall
    \/ LoopSend
    \/ \E task \in Tasks : LoopRecv(task)
    \/ LoopTimer
    \/ LoopShutdown
    \/ Signal

\* The runtime lets every task that can take a step take it, and select!
\* picks at random among the branches that are ready, so a branch that is
\* ready again and again is taken.  Nothing makes a connection succeed, a
\* message arrive or a signal come.
NetFairness ==
    /\ \A task \in Tasks : WF_vars(\E ok \in BOOLEAN : Connect(task, ok))
    /\ \A task \in Tasks : WF_vars(Deliver(task))
    /\ \A task \in Tasks : WF_vars(Delay(task))
    /\ WF_vars(Notify)
    /\ SF_vars(\E ok \in BOOLEAN : TakeCmd(ok))
    /\ WF_vars(CmdClosed)
    /\ WF_vars(LoopCall)
    /\ WF_vars(LoopSend)
    /\ \A task \in Tasks : SF_vars(LoopRecv(task))
    /\ SF_vars(LoopShutdown)

NetSpec == NetInit /\ [][NetNext]_vars /\ NetFairness

NotDraining ==
    \/ ws["kalshi"] \in {"sending", "notifying"} /\ Len(kalshi_rx) = EventCap
    \/ ws["kalshi"] \in {"connecting", "delay", "notifying"}

\* C14: enqueuing a subscribe or unsubscribe never stalls the loop: no state
\* is reachable in which the loop waits to enqueue a command while the
\* protocol task waits to enqueue an event or is not connected, and so does
\* not drain the command channel.
C14_NoStallOnCommand == ~(LoopWaitsToSend /\ NotDraining)

\* C15: each streaming task cycles through delay, connecting and connected
\* without end.  A task stops only when the loop's receiving end or, for the
\* protocol task, the command channel is gone; and a failed connect, a read
\* or write error, a close or the end of the stream each lead, after the
\* delay, to a new connect attempt.
C15_TaskStopsOnlyWhenLoopGone ==
    [][\A task \in Tasks :
          /\ ws'[task] = "stopped" /\ ws[task] # "stopped" =>
                stopped /\ ws[task] \in {"sending", "connected"}
          /\ ws[task] = "delay" /\ ws'[task] # ws[task] => ws'[task] = "connecting"
          /\ ws[task] = "notifying" /\ ws'[task] # ws[task] => ws'[task] = "delay"]_vars

C15_ReconnectsForever ==
    \A task \in Tasks : (ws[task] \in {"notifying", "delay"}) ~> (ws[task] = "connecting")

\* C16: shutdown is observed only at the wait point of the loop, and once
\* the signal is set the loop eventually exits; after the exit no call of a
\* handler is made, no event is received and no command is enqueued.
C16_ObservedAtWaitPoint ==
    [][/\ stopped' /\ ~stopped => shutdown /\ todo = <<>>
       /\ stopped =>
             /\ stopped' /\ UNCHANGED <<todo, received>>
             /\ cmd_rx' = cmd_rx \/ (cmd_rx # <<>> /\ cmd_rx' = Tail(cmd_rx))]_vars

C16_ShutdownExits == shutdown ~> stopped

(***************************************************************************)
(* f64 arithmetic.  A natural number of any size is the sequence of its    *)
(* digits to the base 2^15, lowest first, with no leading zero digit; an   *)
(* f64 is a sign, a natural m below 2^53 + 1 and an exponent e, and stands *)
(* for m * 2^e.  Every operation computes the exact result and rounds it   *)
(* to 53 bits, to nearest and ties to even, as IEEE 754 binary64 does; the *)
(* values met here are far from the subnormal range and from overflow.     *)
(***************************************************************************)
Limb == 2^15
MantissaBits == 53

RECURSIVE Norm(_)
Norm(a) == IF a # <<>> /\ a[Len(a)] = 0 THEN Norm(SubSeq(a, 1, Len(a) - 1)) ELSE a

RECURSIVE Big(_)
Big(n) == IF n = 0 THEN <<>> ELSE <<n % Limb>> \o Big(n \div Limb)

RECURSIVE Small(_)
Small(a) == IF a = <<>> THEN 0 ELSE a[1] + Limb * Small(Tail(a))

Digit(a, i) == IF i <= Len(a) THEN a[i] ELSE 0
Rest(a) == IF a = <<>> THEN <<>> ELSE Tail(a)

RECURSIVE AddC(_, _, _)
AddC(a, b, carry) ==
    IF a = <<>> /\ b = <<>> THEN (IF carry = 0 THEN <<>> ELSE <<carry>>)
    ELSE LET t == Digit(a, 1) + Digit(b, 1) + carry
         IN <<t % Limb>> \o AddC(Rest(a), Rest(b), t \div Limb)

BAdd(a, b) == AddC(a, b, 0)

RECURSIVE SubB(_, _, _)
SubB(a, b, borrow) ==
    IF a = <<>> THEN <<>>
    ELSE LET t == a[1] - Digit(b, 1) - borrow
         IN <<(t + Limb) % Limb>> \o SubB(Tail(a), Rest(b), IF t < 0 THEN 1 ELSE 0)

\* a - b, for a >= b
BSub(a, b) == Norm(SubB(a, b, 0))

RECURSIVE BLess(_, _)
BLess(a, b) ==
    IF Len(a) # Len(b) THEN Len(a) < Len(b)
    ELSE IF a = <<>> THEN FALSE
    ELSE IF a[Len(a)] # b[Len(b)] THEN a[Len(a)] < b[Len(b)]
    ELSE BLess(SubSeq(a, 1, Len(a) - 1), SubSeq(b, 1, Len(b) - 1))

RECURSIVE MulS(_, _, _)
MulS(a, k, carry) ==
    IF a = <<>> THEN (IF carry = 0 THEN <<>> ELSE <<carry>>)
    ELSE LET t == a[1] * k + carry
         IN <<t % Limb>> \o MulS(Tail(a), k, t \div Limb)

RECURSIVE MulL(_, _)
MulL(a, b) == IF b = <<>> THEN <<>> ELSE BAdd(MulS(a, b[1], 0), <<0>> \o MulL(a, Tail(b)))

BMul(a, b) == Norm(MulL(a, b))

\* a * 2^k
BShl(a, k) == Norm([i \in 1..(k \div 15) |-> 0] \o MulS(a, 2^(k % 15), 0))

RECURSIVE Bits(_)
Bits(x) == IF x = 0 THEN 0 ELSE 1 + Bits(x \div 2)

BitLen(a) == IF a = <<>> THEN 0 ELSE 15 * (Len(a) - 1) + Bits(a[Len(a)])
Bit(a, i) == (Digit(a, i \div 15 + 1) \div 2^(i % 15)) % 2

\* one step of the long division by d: the next bit of the dividend is
\* brought down to the remainder
DivStep(d, qr, bit) ==
    LET r2 == AddC(qr[2], qr[2], bit)
    IN IF BLess(r2, d) THEN <<BAdd(qr[1], qr[1]), r2>>
       ELSE <<AddC(qr[1], qr[1], 1), BSub(r2, d)>>

RECURSIVE DivBits(_, _, _, _, _)
\* the n bits of a from bit i downwards
DivBits(a, d, i, n, qr) ==
    IF n = 0 \/ Len(qr) = 0 THEN qr
    ELSE DivBits(a, d, i - 1, n - 1, DivStep(d, qr, Bit(a, i)))

RECURSIVE DivDigits(_, _, _, _)
\* the digits of a from digit j downwards
DivDigits(a, d, j, qr) ==
    IF j = 0 \/ Len(qr) = 0 THEN qr
    ELSE DivDigits(a, d, j - 1, DivBits(a, d, 15 * j - 1, 15, qr))

\* <<a div d, a mod d>>, for d > 0
BDivMod(a, d) == DivDigits(a, d, Len(a), <<<<>>, <<>>>>)

F64(neg, m, e) == [neg |-> neg, m |-> m, e |-> e]
FromInt(n) == F64(n < 0, Big(IF n < 0 THEN -n ELSE n), 0)

\* n * 2^e to the nearest f64; sticky says that the exact value lies
\* above n * 2^e and below (n + 1) * 2^e
RoundF(neg, n, e, sticky) ==
    LET s == BitLen(n) - MantissaBits
    IN IF s <= 0 THEN F64(neg, n, e)
       ELSE LET qr == BDivMod(n, BShl(<<1>>, s))
                half == BShl(<<1>>, s - 1)
                up == \/ BLess(half, qr[2])
                      \/ qr[2] = half /\ (sticky \/ Bit(qr[1], 0) = 1)
            IN F64(neg, IF up THEN BAdd(qr[1], <<1>>) ELSE qr[1], e + s)

FMul(a, b) == RoundF(a.neg # b.neg, BMul(a.m, b.m), a.e + b.e, FALSE)

FDiv(a, b) ==
    LET k == IF BitLen(b.m) + 56 > BitLen(a.m) THEN BitLen(b.m) + 56 - BitLen(a.m) ELSE 0
        qr == BDivMod(BShl(a.m, k), b.m)
    IN RoundF(a.neg # b.neg, qr[1], a.e - b.e - k, qr[2] # <<>>)

FAdd(a, b) ==
    LET e == IF a.e < b.e THEN a.e ELSE b.e
        x == BShl(a.m, a.e - e)
        y == BShl(b.m, b.e - e)
    IN IF a.neg = b.neg THEN RoundF(a.neg, BAdd(x, y), e, FALSE)
       ELSE IF BLess(x, y) THEN RoundF(b.neg, BSub(y, x), e, FALSE)
       ELSE IF x = y THEN F64(FALSE, <<>>, 0)
       ELSE RoundF(a.neg, BSub(x, y), e, FALSE)

FSub(a, b) == FAdd(a, F64(~b.neg, b.m, b.e))

\* a < b
FLess(a, b) ==
    LET d == FSub(a, b) IN d.neg /\ d.m # <<>>

\* f64::ceil followed by `as u32`, for a >= 0
CeilU32(a) ==
    IF a.e >= 0 THEN Small(BShl(a.m, a.e))
    ELSE LET qr == BDivMod(a.m, BShl(<<1>>, -a.e))
         IN Small(qr[1]) + (IF qr[2] = <<>> THEN 0 ELSE 1)

(***************************************************************************)
(* Sizing and edge (core/risk.rs)                                          *)
(***************************************************************************)
Zero == FromInt(0)
One == FromInt(1)
Hundred == FromInt(100)
Half == F64(FALSE, <<1>>, -1)

Returned(n) == [kind |-> "Ok", shares |-> n]
Panicked == [kind |-> "Panic", shares |-> 0]

\* u32::clamp, which asserts min <= max
ClampU32(x, lo, hi) == IF lo > hi THEN Panicked ELSE Returned(Clamp(x, lo, hi))

\* risk.rs 28-44
kelly_shares(win_prob, price_cents, cap) ==
    IF ~FLess(Zero, win_prob) \/ ~FLess(win_prob, One)
       \/ price_cents = 0 \/ price_cents >= 100
    THEN Returned(0)
    ELSE LET b == FDiv(FSub(Hundred, FromInt(price_cents)), FromInt(price_cents))
             f == FDiv(FSub(FMul(win_prob, b), FSub(One, win_prob)), b)
         IN IF ~FLess(Zero, f) THEN Returned(0)
            ELSE LET half_kelly == FMul(f, Half)
                     shares == CeilU32(FMul(half_kelly, FromInt(5)))
                 IN ClampU32(shares, 1, Min(cap, 3))

FAbs(a) == F64(FALSE, a.m, a.e)

\* a variant that asks for 8 points whatever the streak
validate_edge_any_streak(estimated_probability, estimated_edge, price_cents, current_streak) ==
    IF estimated_probability = None THEN Some("no_probability")
    ELSE LET p == estimated_probability[1]
         IN IF FLess(p, One) \/ FLess(FromInt(99), p) THEN Some("probability_range")
            ELSE LET edge == IF estimated_edge # None THEN estimated_edge[1]
                             ELSE FAbs(FSub(p, FromInt(price_cents)))
                 IN IF FLess(edge, FromInt(8)) THEN Some("edge")
                    ELSE IF price_cents > 50 THEN Some("price")
                    ELSE None

\* risk.rs 47-85
validate_edge(estimated_probability, estimated_edge, price_cents, current_streak) ==
    IF estimated_probability = None THEN Some("no_probability")
    ELSE LET p == estimated_probability[1]
         IN IF FLess(p, One) \/ FLess(FromInt(99), p) THEN Some("probability_range")
            ELSE LET edge == IF estimated_edge # None THEN estimated_edge[1]
                             ELSE FAbs(FSub(p, FromInt(price_cents)))
                     min_edge == IF current_streak <= -3 THEN FromInt(12)
                                 ELSE FromInt(8)
                 IN IF FLess(edge, min_edge) THEN Some("edge")
                    ELSE IF price_cents > 50 THEN Some("price")
                    ELSE None

(***************************************************************************)
(* The signal summary (core/indicators.rs), from the estimate on: prob_yes *)
(* is the estimate lines 110-166 have built, 50 and the adjustments of the *)
(* five signals, each a whole number of points; the edges and prices are   *)
(* therefore whole numbers, which f64 holds exactly.                       *)
(***************************************************************************)
Max(a, b) == IF a >= b THEN a ELSE b

\* indicators.rs 192-198: the half-Kelly fraction of the summary
summary_kelly(win_prob, best_price) ==
    IF best_price > 0 /\ best_price < 100 /\ FLess(Zero, win_prob)
    THEN LET b == FDiv(FSub(Hundred, FromInt(best_price)), FromInt(best_price))
             f == FDiv(FSub(FMul(win_prob, b), FSub(One, win_prob)), b)
             h == FMul(f, Half)
         IN IF FLess(Zero, h) THEN h ELSE Zero
    ELSE Zero

\* indicators.rs 168-204 and 219-228
compute_signal_summary(prob_yes, market) ==
    LET prob == Clamp(prob_yes, 5, 95)
        yes_ask == UnwrapOr(market.yes_ask, 99)
        no_ask == UnwrapOr(market.no_ask, 99)
        yes_edge == prob - yes_ask
        no_edge == (100 - prob) - no_ask
        pick == IF yes_edge > no_edge /\ yes_edge > 0
                THEN <<Some("Yes"), yes_edge, yes_ask>>
                ELSE IF no_edge > 0 THEN <<Some("No"), no_edge, no_ask>>
                ELSE <<None, Max(yes_edge, no_edge), Min(yes_ask, no_ask)>>
        win_prob == IF pick[1] = Some("Yes") THEN FDiv(FromInt(prob), Hundred)
                    ELSE FDiv(FromInt(100 - prob), Hundred)
    IN [recommended_side |-> pick[1],
        estimated_edge |-> pick[2],
        kelly_shares |-> IF pick[2] >= 8
                         THEN Clamp(CeilU32(FMul(summary_kelly(win_prob, pick[3]),
                                                 FromInt(5))), 1, 3)
                         ELSE 0,
        estimated_probability |-> prob]

(***************************************************************************)
(* The Brain (adapters/openrouter.rs).  A reply of the reasoning service   *)
(* is a sequence of pieces: the fence that opens a json block and the      *)
(* bare fence (which the former starts with), the two braces, white space, *)
(* prose that holds none of these, and what may stand between the braces   *)
(* of an object: the fields of a Pass decision, those of a Buy decision,   *)
(* or fields that make no decision (no reasoning, an unknown action).      *)
(***************************************************************************)
MaxReply == 4       \* pieces in a reply

Pieces == {"fence_json", "fence", "{", "}", " ", "text", "pass", "buy", "other"}

PassFields == [action |-> "Pass", side |-> None, shares |-> None,
               max_price_cents |-> None, reasoning |-> "model"]
BuyFields == [action |-> "Buy", side |-> Some("Yes"), shares |-> Some(2),
              max_price_cents |-> Some(40), reasoning |-> "model"]

\* str::find and str::rfind: the first and the last piece that starts a
\* match, 0 when there is none
Find(raw, from, pats) ==
    LET I == {i \in from..Len(raw) : raw[i] \in pats}
    IN IF I = {} THEN 0 ELSE CHOOSE i \in I : \A j \in I : i <= j

RFind(raw, pats) ==
    LET I == {i \in 1..Len(raw) : raw[i] \in pats}
    IN IF I = {} THEN 0 ELSE CHOOSE i \in I : \A j \in I : j <= i

\* str::trim
Trim(raw) ==
    LET I == {i \in 1..Len(raw) : raw[i] # " "}
    IN IF I = {} THEN <<>> ELSE SubSeq(raw, Find(raw, 1, Pieces \ {" "}),
                                       RFind(raw, Pieces \ {" "}))

\* serde_json::from_str::<TradeDecision>: the text must be one object and
\* nothing else, white space apart, and hold the fields of a decision
from_str(text) ==
    LET tokens == SelectSeq(text, LAMBDA p : p # " ")
    IN IF Len(tokens) = 3 /\ tokens[1] = "{" /\ tokens[3] = "}"
          /\ tokens[2] \in {"pass", "buy"}
       THEN [kind |-> "Ok",
             decision |-> IF tokens[2] = "pass" THEN PassFields ELSE BuyFields]
       ELSE [kind |-> "Err"]

FailedToParse == [action |-> "Pass", side |-> None, shares |-> None,
                  max_price_cents |-> None,
                  reasoning |-> "Failed to parse AI response"]

\* openrouter.rs 154-177.  The slice raw[s..=e] of the third branch is empty
\* when the last "}" stands right before the first "{", and indexing panics
\* when it stands further left.
parse_decision(raw) ==
    LET s == Find(raw, 1, {"fence_json"})
        open == Find(raw, 1, {"{"})
        close == RFind(raw, {"}"})
    IN IF s # 0
       THEN LET e == Find(raw, s + 1, {"fence", "fence_json"})
            IN from_str(SubSeq(raw, s + 1, IF e = 0 THEN Len(raw) ELSE e - 1))
       ELSE IF Trim(raw) # <<>> /\ Head(Trim(raw)) = "{"
       THEN from_str(Trim(raw))
       ELSE IF open # 0 /\ close # 0
       THEN IF close < open - 1 THEN [kind |-> "Panic"]
            ELSE from_str(SubSeq(raw, open, close))
       ELSE [kind |-> "Ok", decision |-> FailedToParse]

\* openrouter.rs 63-67 and engine.rs 115: what the reply makes of the cycle
\* that asked for it, all other answers of the outside being favourable
decide(raw) ==
    LET r == parse_decision(raw)
    IN IF r.kind = "Panic" THEN [parsed |-> r, out |-> "panic", calls |-> <<>>]
       ELSE LET inp == IF r.kind = "Err"
                       THEN Input("decide", 0, Balance, "open", 10, PassFields)
                       ELSE Input("none", 0, Balance, "open", 10, r.decision)
                c == entry_cycle(Ctx, series_tickers[1], inp)
            IN [parsed |-> r, out |-> c.out, calls |-> c.calls]

(***************************************************************************)
(* The pure functions on their own: a run makes one call of one of them,   *)
(* on inputs drawn from its set, and last_op keeps the call and what it    *)
(* returned.                                                               *)
(***************************************************************************)
RECURSIVE SeqsUpTo(_, _)
SeqsUpTo(S, n) ==
    IF n = 0 THEN {<<>>}
    ELSE LET shorter == SeqsUpTo(S, n - 1)
         IN shorter \cup {Append(q, x) : q \in shorter, x \in S}

Replies == SeqsUpTo(Pieces, MaxReply)

PureInit ==
    /\ Init
    /\ paper_trade = FALSE

PureRest == <<aside, series_tickers, paper_trade, now, ledger, stats_md, positions,
              orderbooks, subscribed_tickers, kalshi_rx, todo, resting, exposure,
              settled, next_oid, mkt, critical>>

BrainDecide(raw) ==
    /\ last_op.op = "start"
    /\ last_op' = [op |-> "decide", arg |-> raw, out |-> decide(raw)]
    /\ UNCHANGED PureRest

\* win probabilities in hundredths, prices in cents, and share limits
KellyPercents == {-50, 0, 30, 46, 55, 90, 100, 150}
KellyPrices == {0, 10, 30, 50, 100}
KellyLimits == {0, 2, 3, 5}

Percent(n) == FDiv(FromInt(n), Hundred)

Kelly(n, price_cents, cap) ==
    /\ last_op.op = "start"
    /\ last_op' = [op |-> "kelly_shares",
                   arg |-> [percent |-> n, price_cents |-> price_cents, max_shares |-> cap],
                   out |-> kelly_shares(Percent(n), price_cents, cap)]
    /\ UNCHANGED PureRest

\* probabilities and edges in tenths of a point, as the reply may give them
ProbTenths == {9, 10, 299, 300, 339, 340, 990, 991, 1500}
EdgeTenths == {79, 80, 120}
EdgePrices == {22, 50, 51}
Streaks == {-4, -3, -2}

Tenths(t) == FDiv(FromInt(t), FromInt(10))
OptTenths(o) == IF o = None THEN None ELSE Some(Tenths(o[1]))
Opt(S) == {None} \cup {Some(x) : x \in S}

ValidateEdge(prob, edge, price_cents, streak) ==
    /\ last_op.op = "start"
    /\ last_op' = [op |-> "validate_edge",
                   arg |-> [prob |-> prob, edge |-> edge, price_cents |-> price_cents,
                            streak |-> streak],
                   out |-> validate_edge(OptTenths(prob), OptTenths(edge),
                                         price_cents, streak)]
    /\ UNCHANGED PureRest

\* the estimates the five signals can add up to, and the asks of a market
Estimates == {26, 42, 50, 58, 74}
YesAsks == {30, 40, 42, 50, 58, 70}
NoAsks == {30, 40, 42, 50, 60}

SignalSummary(prob_yes, market) ==
    /\ last_op.op = "start"
    /\ last_op' = [op |-> "compute_signal_summary",
                   arg |-> [prob_yes |-> prob_yes, market |-> market],
                   out |-> compute_signal_summary(prob_yes, market)]
    /\ UNCHANGED PureRest

\* balances, day results and streaks on either side of each limit
Balances == {min_balance_cents - 1, min_balance_cents, min_balance_cents + 1}
DayPnls == {-max_daily_loss_cents - 1, -max_daily_loss_cents,
            -max_daily_loss_cents + 1, 0}
RiskStreaks == {-max_consecutive_losses - 1, -max_consecutive_losses,
                -max_consecutive_losses + 1, 0, 3}

RiskCheck(stats, balance_cents) ==
    /\ last_op.op = "start"
    /\ last_op' = [op |-> "risk_check",
                   arg |-> [stats |-> stats, balance_cents |-> balance_cents],
                   out |-> risk_check(stats, balance_cents)]
    /\ UNCHANGED PureRest

PureNext ==
    \/ \E raw \in Replies : BrainDecide(raw)
    \/ \E n \in KellyPercents, price_cents \in KellyPrices, cap \in KellyLimits :
           Kelly(n, price_cents, cap)
    \/ \E prob \in Opt(ProbTenths), edge \in Opt(EdgeTenths),
          price_cents \in EdgePrices, streak \in Streaks :
           ValidateEdge(prob, edge, price_cents, streak)
    \/ \E prob_yes \in Estimates, yes_ask \in Opt(YesAsks), no_ask \in Opt(NoAsks) :
           SignalSummary(prob_yes, [yes_ask |-> yes_ask, no_ask |-> no_ask])
    \/ \E pnl \in DayPnls, streak \in RiskStreaks, balance_cents \in Balances :
           RiskCheck([total_pnl_cents |-> pnl, today_pnl_cents |-> pnl,
                      current_streak |-> streak], balance_cents)

PureSpec == PureInit /\ [][PureNext]_vars

\* C21: a reply that cannot be parsed into a decision never raises an error:
\* for every reply text the Brain yields a decision, which is Pass with the
\* fixed reasoning string when the reply holds no braces at all, and the cycle
\* that asked ends with no order and no cycle error unless the decision is Buy.
C21_ReplyNeverErrs ==
    last_op.op = "decide" =>
        /\ last_op.out.parsed.kind = "Ok"
        /\ (\A i \in 1..Len(last_op.arg) : last_op.arg[i] \notin {"{", "}"})
               => last_op.out.parsed.decision = FailedToParse
        /\ last_op.out.parsed.decision.action = "Pass"
               => /\ last_op.out.out = "pass"
                  /\ "place_order" \notin Range(last_op.out.calls)

\* ceil(x / y) for x >= 0 and y > 0
CeilDiv(x, y) == (x + y - 1) \div y

\* C22: for every winProb, price and maxShares, kelly_shares returns 0 when
\* winProb is outside (0,1) or price is 0 or 100 or above, and 0 when the Kelly
\* fraction f = (winProb*b - (1 - winProb))/b, b = (100 - price)/price, is not
\* positive; otherwise it returns ceil(0.5*f*5) clamped to [1, min(maxShares,3)],
\* a value in [1,3].  With winProb = n/100, f = (n - price)/(100 - price).
C22_KellySizing ==
    last_op.op = "kelly_shares" =>
        LET n == last_op.arg.percent
            price == last_op.arg.price_cents
            cap == last_op.arg.max_shares
        IN /\ last_op.out.kind = "Ok"
           /\ IF n <= 0 \/ n >= 100 \/ price = 0 \/ price >= 100 \/ n <= price
              THEN last_op.out.shares = 0
              ELSE /\ last_op.out.shares
                        = Clamp(CeilDiv(5 * (n - price), 2 * (100 - price)),
                                1, Min(cap, 3))
                   /\ last_op.out.shares \in 1..3

Abs(x) == IF x < 0 THEN -x ELSE x

\* C23: validate_edge vetoes when the probability is missing or outside
\* [1,99]; otherwise it takes the supplied edge, or |prob - price| when none is
\* supplied, and vetoes when that edge is below 12 if streak <= -3 or below 8
\* otherwise, and vetoes when price exceeds 50 cents; it returns no veto exactly
\* when none of these conditions holds.  Probabilities and edges are in tenths.
C23_ValidateEdge ==
    last_op.op = "validate_edge" =>
        LET a == last_op.arg
            missing == a.prob = None
            outside == ~missing /\ (a.prob[1] < 10 \/ a.prob[1] > 990)
            edge == IF a.edge # None THEN a.edge[1]
                    ELSE Abs(a.prob[1] - 10 * a.price_cents)
            min_edge == IF a.streak <= -3 THEN 120 ELSE 80
            low == ~missing /\ ~outside /\ edge < min_edge
            dear == ~missing /\ ~outside /\ a.price_cents > 50
        IN /\ (missing \/ outside \/ low \/ dear) <=> last_op.out # None
           /\ missing => last_op.out = Some("no_probability")
           /\ outside => last_op.out = Some("probability_range")

\* the edge is computed from the probability, the streak asks for 12 points,
\* and the edge is 12 points or more: no veto
C23_Witness ==
    /\ last_op.op = "validate_edge"
    /\ last_op.arg.prob = Some(340) /\ last_op.arg.edge = None
    /\ last_op.arg.price_cents = 22 /\ last_op.arg.streak = -3
    /\ last_op.out = None

\* C24: compute_signal_summary computes the edge of each side against its own
\* ask (Yes: prob - yes ask; No: (100 - prob) - no ask) and recommends the side
\* with the larger positive edge, Yes when the two edges are equal and positive,
\* and no side when neither edge is positive; when no side is recommended the
\* reported edge is the least negative of the two, and the Kelly share count is
\* 0 unless the reported edge is at least 8 points.
C24_RecommendedSide ==
    last_op.op = "compute_signal_summary" =>
        LET prob == last_op.arg.prob_yes
            yes_edge == prob - UnwrapOr(last_op.arg.market.yes_ask, 99)
            no_edge == (100 - prob) - UnwrapOr(last_op.arg.market.no_ask, 99)
            out == last_op.out
        IN /\ (yes_edge > 0 /\ yes_edge >= no_edge)
                => out.recommended_side = Some("Yes") /\ out.estimated_edge = yes_edge
           /\ (no_edge > 0 /\ no_edge > yes_edge)
                => out.recommended_side = Some("No") /\ out.estimated_edge = no_edge
           /\ (yes_edge <= 0 /\ no_edge <= 0)
                => /\ out.recommended_side = None
                   /\ out.estimated_edge = Max(yes_edge, no_edge)
           /\ out.estimated_edge < 8 => out.kelly_shares = 0

\* C25: the risk check vetoes exactly when the balance is below the floor, or
\* today's pnl is at or below minus the daily-loss limit, or the streak is at
\* or below minus the maximum of consecutive losses; the checks run in that
\* order and the reason returned is that of the first failing check; with none
\* failing it returns no veto.
C25_RiskVetoes ==
    last_op.op = "risk_check" =>
        LET low == last_op.arg.balance_cents < min_balance_cents
            loss == last_op.arg.stats.today_pnl_cents <= -max_daily_loss_cents
            run == last_op.arg.stats.current_streak <= -max_consecutive_losses
        IN /\ low => last_op.out = Some("balance")
           /\ (~low /\ loss) => last_op.out = Some("daily_loss")
           /\ (~low /\ ~loss /\ run) => last_op.out = Some("streak")
           /\ (~low /\ ~loss /\ ~run) => last_op.out = None

\* all three checks fail and the balance is the reason given
C25_Witness ==
    /\ last_op.op = "risk_check"
    /\ last_op.arg.balance_cents < min_balance_cents
    /\ last_op.arg.stats.today_pnl_cents = -max_daily_loss_cents
    /\ last_op.arg.stats.current_streak = -max_consecutive_losses
    /\ last_op.out = Some("balance")

\* the place of the first call of that name among the exchange calls of a cycle
IndexOf(calls, name) ==
    LET at == {i \in 1..Len(calls) : calls[i] = name}
    IN IF at = {} THEN 0 ELSE CHOOSE i \in at : \A j \in at : i <= j

\* the ways entry_cycle ends at a gate
GateEnds == {"skip:position", "veto", "skip:no_market", "skip:expiry", "pass",
             "abort:exposure"}

\* C28: entry_cycle places an order or appends a row only if, in that cycle and
\* in this order, PositionManager held no position for the series, the risk
\* check on the fetched balance gave no veto, the selected market had at least
\* the configured minutes to expiry, the Brain decided Buy and the positions
\* fetched after the decision showed no exposure on the selected market; when a
\* gate fails the cycle returns Ok with no order and no new row.
C28_GatesBeforeOrder ==
    AtEntry =>
        \A inp \in CycleInputs :
            LET c == Cycle(inp)
                acted == \/ c.next_oid # next_oid
                         \/ Len(c.resting) > Len(resting)
                         \/ Len(c.ledger) > Len(ledger)
                         \/ IndexOf(c.calls, "place_order") > 0
                gates ==
                    /\ ~has_position_for_series(positions, EntrySeries)
                    /\ risk_check(stats_compute(c.mem), inp.balance) = None
                    /\ inp.market = "open"
                    /\ mkt[EntrySeries] <= NumMarkets
                    /\ inp.minutes >= min_minutes_to_expiry
                    /\ inp.decision.action = "Buy"
                    /\ <<EntrySeries, mkt[EntrySeries]>> \notin exposure
                in_order ==
                    /\ 0 < IndexOf(c.calls, "balance")
                    /\ IndexOf(c.calls, "balance") < IndexOf(c.calls, "active_market")
                    /\ IndexOf(c.calls, "active_market") < IndexOf(c.calls, "positions")
                    /\ IndexOf(c.calls, "positions") = Len(c.calls)
                           - (IF IndexOf(c.calls, "place_order") > 0 THEN 1 ELSE 0)
                    /\ c.market = <<EntrySeries, mkt[EntrySeries]>>
            IN /\ acted => gates /\ in_order
               /\ (inp.fail = "none" /\ ~gates)
                      => /\ c.out \in GateEnds
                         /\ OutKind(c.out) = "ok"
                         /\ ~acted

\* a live cycle that is not the first: with one input it places an order and
\* appends its row, with another the risk gate stops it
C28_Witness ==
    /\ AtEntry /\ ~paper_trade /\ ledger # <<>>
    /\ \E inp \in CycleInputs : Cycle(inp).out = "ok:live"
    /\ \E inp \in CycleInputs : Cycle(inp).out = "veto"

\* the exchange shows exposure on the market the cycle selects and
\* PositionManager holds nothing: the last gate is the one that stops the cycle
C28_WitnessExposure ==
    /\ AtEntry
    /\ \E inp \in CycleInputs : Cycle(inp).out = "abort:exposure"

(***************************************************************************)
(* A series with two markets, one listed after the other.  The exchange    *)
(* lists a market as active while its expiry lies ahead (client.rs         *)
(* 100-141), and shows a position until the market has settled (client.rs  *)
(* 208-225): between the two, the series' active market is the next one    *)
(* while the account still holds the earlier one.  The clock stands still: *)
(* every cycle runs while the pending row of the last entry is young.      *)
(***************************************************************************)
SeriesInit ==
    /\ series_tickers = <<"A">>
    /\ paper_trade = FALSE
    /\ now = 0
    /\ ledger = <<>>
    /\ stats_md = None
    /\ positions = {}
    /\ orderbooks = {}
    /\ subscribed_tickers = {}
    /\ kalshi_rx = <<>>
    /\ todo = EntryJobs
    /\ resting = <<>>
    /\ exposure = {}
    /\ settled = {}
    /\ next_oid = 1
    /\ mkt = [s \in SeriesSet |-> NumMarkets - 1]
    /\ critical = FALSE
    /\ last_op = [op |-> "start", out |-> ""]
    /\ primary = File(<<HeaderLine, RuleLine>>)
    /\ backup = Missing
    /\ mut = NoMutation
    /\ Streaming

\* the expiry of the series' active market passes: the next market is the
\* active one, the orders resting on the expired one are gone, and what the
\* account holds on it stays until it settles
MarketExpires ==
    /\ \E i \in 1..Len(series_tickers) :
        LET s == series_tickers[i]
            t == <<s, mkt[s]>>
        IN /\ mkt[s] < NumMarkets
           /\ mkt' = [mkt EXCEPT ![s] = @ + 1]
           /\ resting' = SelectSeq(resting, LAMBDA r : r.ticker # t)
    /\ UNCHANGED <<aside, series_tickers, paper_trade, now, ledger, stats_md, positions,
                   orderbooks, subscribed_tickers, kalshi_rx, todo, exposure, settled,
                   next_oid, critical, last_op>>

\* an expired market settles; the stream delivers the lifecycle notice or not
ExpiredSettles ==
    /\ \E t \in exposure : \E rev \in Revenues :
       \E notice \in LifecycleStatuses \cup {"-"} :
        /\ t[2] < mkt[t[1]]
        /\ exposure' = exposure \ {t}
        /\ settled' = settled \cup {[ticker |-> t, revenue |-> rev]}
        /\ IF notice # "-"
           THEN /\ t \in subscribed_tickers
                /\ Len(kalshi_rx) < MaxQueue
                /\ kalshi_rx' = Append(kalshi_rx,
                       [type |-> "MarketLifecycle", ticker |-> t, status |-> notice])
           ELSE kalshi_rx' = kalshi_rx
    /\ UNCHANGED <<aside, series_tickers, paper_trade, now, ledger, stats_md, positions,
                   orderbooks, subscribed_tickers, todo, resting, next_oid, mkt,
                   critical, last_op>>

SeriesNext ==
    \/ \E inp \in CycleInputs : RunEntry(inp)
    \/ \E inp \in CycleInputs : EntryTimerTick(inp)
    \/ PositionTimerTick
    \/ \E xin \in ExitInputs : RunExit(xin)
    \/ KalshiRecv
    \/ ExchangeFill
    \/ MarketExpires
    \/ ExpiredSettles
    \/ MarketSettles
    \/ StreamOrderbook

SeriesSpec == SeriesInit /\ [][SeriesNext]_vars

\* C29: entry_cycle never places an order for a series while the account holds
\* an open position (filled, neither exited nor settled) on a market of that
\* series, whether or not the fill has reached PositionManager and whichever
\* market of the series is the active one; PositionManager never holds
\* positions on two market tickers of one series.
C29_OneLiveBetPerSeries ==
    /\ AtEntry =>
           \A inp \in CycleInputs :
               Cycle(inp).next_oid # next_oid
                   => ~\E t \in exposure : starts_with(t, EntrySeries)
    /\ \A p, q \in position_tickers(positions) : starts_with(p, q[1]) => p = q

\* the second half alone
C29_OneTickerPerSeries ==
    \A p, q \in position_tickers(positions) : starts_with(p, q[1]) => p = q

\* the cycle at the point where settlement reconciliation begins
AfterCancel(inp) == StepCancel(Ctx, inp)
RestingIds(orders) == {orders[i].order_id : i \in 1..Len(orders)}

\* C30: when entry_cycle reaches settlement reconciliation, every order the
\* exchange listed as resting at the start of the cycle has been cancelled and
\* the pending row carrying its order id is "cancelled" with pnl 0 and the
\* cumulative pnl it had; the rows of all other orders are as they were.
C30_StaleOrdersCancelled ==
    (AtEntry /\ ~has_position_for_series(positions, EntrySeries)) =>
        \A inp \in CycleInputs :
            LET c == AfterCancel(inp)
            IN c.st = "run" =>
                /\ c.resting = <<>>
                /\ c.calls = <<"resting_orders">>
                                \o [i \in 1..Len(resting) |-> "cancel_order"]
                /\ Len(c.ledger) = Len(ledger)
                /\ \A i \in 1..Len(ledger) :
                       IF LineIsPending(ledger[i])
                          /\ ledger[i].order_id \in RestingIds(resting)
                       THEN /\ c.ledger[i].result = "cancelled"
                            /\ c.ledger[i].pnl_cents = 0
                            /\ c.ledger[i].cumulative_cents = ledger[i].cumulative_cents
                            /\ c.ledger[i] = [ledger[i] EXCEPT !.result = "cancelled"]
                       ELSE c.ledger[i] = ledger[i]
                /\ Cycle(inp).calls[1] = "resting_orders"

\* a cycle starts with an order resting whose row is pending, next to a
\* pending row of an order that rests no longer
C30_Witness ==
    /\ AtEntry /\ ~has_position_for_series(positions, EntrySeries)
    /\ Len(ledger) = 2
    /\ resting # <<>>
    /\ \E i, j \in 1..Len(ledger) :
          /\ LineIsPending(ledger[i]) /\ ledger[i].order_id \in RestingIds(resting)
          /\ LineIsPending(ledger[j]) /\ ledger[j].order_id \notin RestingIds(resting)
    /\ \E inp \in CycleInputs : AfterCancel(inp).st = "run"

\* the rows in which two ledgers of one length differ
Changed(before, after) == {k \in 1..Len(before) : after[k] # before[k]}

\* C31: when the exchange returns a settlement for the ticker of the most
\* recent pending row, that row and no other is finalized in the cycle with the
\* settlement's result and pnl = settlement pnl - price * shares, its cumulative
\* pnl grows by that pnl, and the stats are recomputed from the updated ledger
\* and written before the risk gate runs; a cycle reconciles at most one
\* pending row.
C31_SettlementFinalizesRow ==
    (AtEntry /\ ~has_position_for_series(positions, EntrySeries)) =>
        \A inp \in CycleInputs :
            LET c0 == AfterCancel(inp)
                c1 == StepSettle(c0, inp)
                c == Cycle(inp)
                i == LastIndex({k \in 1..Len(c0.ledger) : LineIsPending(c0.ledger[k])})
            IN c0.st = "run" =>
                /\ Len(c1.ledger) = Len(c0.ledger)
                /\ Cardinality(Changed(c0.ledger, c1.ledger)) <= 1
                /\ Changed(c0.ledger, c1.ledger) \subseteq {i}
                /\ (/\ i # 0
                    /\ inp.fail \notin {"read_ledger", "settlements", "settle_last_trade"}
                    /\ Settlements(settled, c0.ledger[i].ticker) # None)
                   => LET old == c0.ledger[i]
                          s == Settlements(settled, old.ticker)[1]
                          pnl == s.pnl_cents - old.price * old.shares
                      IN /\ c1.ledger[i] =
                                [old EXCEPT !.result = s.result, !.pnl_cents = pnl,
                                            !.cumulative_cents = old.cumulative_cents + pnl]
                         /\ c1.ledger[i].result \in {"win", "loss"}
                         /\ \A k \in 1..Len(c0.ledger) : k # i => c1.ledger[k] = c0.ledger[k]
                         /\ \A k \in 1..Len(c0.ledger) : c.ledger[k] = c1.ledger[k]
                         /\ "balance" \in Range(c.calls)
                                => /\ c.stats_md = Some(stats_compute(c1.ledger))
                                   /\ c.mem = c1.ledger
                                   /\ IndexOf(c.calls, "settlements")
                                          < IndexOf(c.calls, "balance")
                         /\ inp.fail = "none" => "balance" \in Range(c.calls)

\* a cycle starts with two pending rows and a settlement for the ticker of the
\* later one: the later row is finalized, the earlier stays pending
C31_Witness ==
    /\ AtEntry /\ ~has_position_for_series(positions, EntrySeries)
    /\ Len(ledger) = 2
    /\ LineIsPending(ledger[1]) /\ LineIsPending(ledger[2])
    /\ resting = <<>>
    /\ Settlements(settled, ledger[2].ticker) # None
    /\ Settlements(settled, ledger[2].ticker)[1].pnl_cents > 0
    /\ \E inp \in CycleInputs :
          /\ inp.fail = "none"
          /\ "balance" \in Range(Cycle(inp).calls)
          /\ ~LineIsPending(Cycle(inp).ledger[2])
          /\ LineIsPending(Cycle(inp).ledger[1])

\* decisions with each field given, omitted, and beyond the limits
DecisionCases ==
    {Decision("Buy", sd, f[1], f[2]) :
        sd \in {None, Some("Yes"), Some("No")},
        f \in {<<None, None>>, <<Some(1), Some(1)>>, <<Some(3), Some(0)>>,
               <<Some(2), Some(99)>>, <<Some(5), Some(100)>>, <<Some(0), Some(150)>>}}
    \cup {Decision("Pass", None, None, None), Decision("Pass", Some("No"), Some(5), Some(150))}

\* C32: for a Buy decision the order and the row carry the decision's shares (1
\* when omitted) capped at the configured maximum, its price (50 when omitted)
\* clamped to 1..99 and its side (Yes when omitted); every order placed and
\* every row appended by entry_cycle has a price in 1..99 and at most the
\* configured number of shares; a Pass decision places nothing.
C32_OrderWithinLimits ==
    /\ \A k \in 1..Len(ledger) :
          ledger[k].price \in 1..99 /\ ledger[k].shares <= max_shares
    /\ \A k \in 1..Len(resting) :
          resting[k].action = "buy"
              => resting[k].yes_price \in 1..99 /\ resting[k].count <= max_shares
    /\ AtEntry =>
          \A d \in DecisionCases : \A fail \in {"none", "append_ledger"} :
              LET c == Cycle(Input(fail, 0, Balance, "open", 10, d))
                  side == IF d.side = None THEN "Yes" ELSE d.side[1]
                  shares == IF d.shares = None THEN 1
                            ELSE IF d.shares[1] > max_shares THEN max_shares
                            ELSE d.shares[1]
                  price == IF d.max_price_cents = None THEN 50
                           ELSE IF d.max_price_cents[1] < 1 THEN 1
                           ELSE IF d.max_price_cents[1] > 99 THEN 99
                           ELSE d.max_price_cents[1]
                  placed == c.next_oid # next_oid
                  appended == Len(c.ledger) > Len(ledger)
              IN /\ d.action = "Pass"
                       => ~placed /\ ~appended /\ "place_order" \notin Range(c.calls)
                 /\ placed =>
                       LET o == c.resting[Len(c.resting)]
                       IN /\ o.action = "buy" /\ o.side = side /\ o.count = shares
                          /\ o.yes_price = (IF side = "Yes" THEN price ELSE 100 - price)
                          /\ o.ticker = c.market
                          /\ Len(c.resting) = 1
                 /\ appended =>
                       LET row == c.ledger[Len(c.ledger)]
                       IN /\ Len(c.ledger) = Len(ledger) + 1
                          /\ row.side = (IF side = "Yes" THEN "yes" ELSE "no")
                          /\ row.shares = shares /\ row.price = price
                          /\ row.ticker = c.market /\ row.result = "pending"
                          /\ row.price \in 1..99 /\ row.shares <= max_shares

\* a live cycle that places an order and appends its row for a decision of 5
\* shares at 100 on No
C32_Witness ==
    /\ AtEntry /\ ~paper_trade /\ ledger # <<>>
    /\ Cycle(Input("none", 0, Balance, "open", 10,
                   Decision("Buy", Some("No"), Some(5), Some(100)))).out = "ok:live"

\* the tickers execute_exit may be called for, and the reasons
ExitTickers == {<<series_tickers[i], n>> : i \in 1..Len(series_tickers), n \in 1..NumMarkets}
ExitReasons == {"TakeProfit", "StopLoss"}

\* C33: execute_exit changes nothing when it does not get past the sell step:
\* with the position or the cached book of the ticker missing it returns Ok
\* without submitting a sell, and when the live sell fails it returns that
\* error; in both cases the ledger, the stats file and PositionManager are as
\* before, and a position there was stays.
C33_ExitFrame ==
    \A ticker \in ExitTickers : \A reason \in ExitReasons : \A xin \in ExitInputs :
        LET c == execute_exit(Ctx, ticker, reason, xin)
            p == MapGet(positions, ticker)
            ob == MapGet(orderbooks, ticker)
            frame == /\ c.ledger = ledger
                     /\ c.stats_md = stats_md
                     /\ c.positions = positions
                     /\ c.orderbooks = orderbooks
                     /\ c.resting = resting
                     /\ c.next_oid = next_oid
        IN /\ (p = None \/ ob = None)
                 => /\ c.out = "noop" /\ OutKind(c.out) = "ok"
                    /\ c.calls = <<>>
                    /\ frame
           /\ c.out = "noop" => c.calls = <<>> /\ frame
           /\ (~paper_trade /\ xin.sell /\ c.out # "noop")
                 => /\ c.out = "err:sell_order" /\ OutKind(c.out) = "err:exchange"
                    /\ c.calls = <<"sell_order">>
                    /\ frame
                    /\ MapGet(c.positions, ticker) = p /\ p # None
           /\ c.out = "err:sell_order" => frame /\ ~paper_trade /\ xin.sell

\* the loop is about to call execute_exit in live mode for a held position
\* with a cached book, and the sell fails; a ledger row is pending
C33_Witness ==
    /\ AtExit /\ ~paper_trade
    /\ \E xin \in ExitInputs : Exit(xin).out = "err:sell_order"
    /\ MapGet(positions, Head(todo).arg[1]) # None
    /\ ledger # <<>>

\* a position is held with no cached book: execute_exit is a no-op for it
C33_WitnessNoBook ==
    \E ticker \in ExitTickers :
        /\ MapGet(positions, ticker) # None
        /\ MapGet(orderbooks, ticker) = None

DuoInit ==
    /\ series_tickers = <<"A", "B">>
    /\ paper_trade = FALSE
    /\ now = 0
    /\ ledger = <<>>
    /\ stats_md = None
    /\ positions = {}
    /\ orderbooks = {}
    /\ subscribed_tickers = {}
    /\ kalshi_rx = <<>>
    /\ todo = EntryJobs
    /\ resting = <<>>
    /\ exposure = {}
    /\ settled = {}
    /\ next_oid = 1
    /\ mkt = [s \in SeriesSet |-> 1]
    /\ critical = FALSE
    /\ last_op = [op |-> "start", out |-> ""]
    /\ primary = File(<<HeaderLine, RuleLine>>)
    /\ backup = Missing
    /\ mut = NoMutation
    /\ Streaming

\* a cycle in which nothing fails, one whose balance call fails, and one the
\* Brain passes on; an exit whose sell is accepted and one whose sell fails
DuoInputs ==
    {Input("none", 0, Balance, "open", 10, DefaultDecision),
     Input("balance", 0, Balance, "open", 10, DefaultDecision),
     Input("none", 0, Balance, "open", 10, PassDecision)}
DuoExits == {ExitInput(FALSE, FALSE, FALSE, FALSE), ExitInput(TRUE, FALSE, FALSE, FALSE)}

DuoNext ==
    \/ \E inp \in DuoInputs : RunEntry(inp)
    \/ \E inp \in DuoInputs : EntryTimerTick(inp)
    \/ PositionTimerTick
    \/ \E xin \in DuoExits : RunExit(xin)
    \/ KalshiRecv
    \/ ExchangeFill
    \/ MarketSettles
    \/ StreamOrderbook

DuoSpec == DuoInit /\ [][DuoNext]_vars

\* a step in which the loop calls entry_cycle, told by the list of calls to make
EntryStep ==
    /\ todo' # todo
    /\ \/ todo = <<>> /\ todo' # <<>> /\ Head(todo').op = "entry"
       \/ todo # <<>> /\ Head(todo).op = "entry"

\* C35: a trading cycle runs to completion inside the handling of one timer
\* event and leaves the state the loop owns untouched: entry_cycle changes
\* neither the positions nor the cached books of PositionManager nor the
\* subscription set, and a fill, order-book update or lifecycle notice that
\* arrives while the cycles of a tick run is applied only after they returned.
C35_CycleLeavesLoopState ==
    [][/\ EntryStep
          => /\ positions' = positions
             /\ orderbooks' = orderbooks
             /\ subscribed_tickers' = subscribed_tickers
             /\ kalshi_rx' = kalshi_rx
             /\ todo' = (IF todo = <<>> THEN Tail(EntryJobs) ELSE Tail(todo))
       /\ (todo # <<>> /\ Head(todo).op = "entry")
          => /\ positions' = positions
             /\ orderbooks' = orderbooks
             /\ subscribed_tickers' = subscribed_tickers
             /\ \/ kalshi_rx' = kalshi_rx
                \/ Len(kalshi_rx') = Len(kalshi_rx) + 1
                   /\ SubSeq(kalshi_rx', 1, Len(kalshi_rx)) = kalshi_rx
             /\ todo' = todo \/ todo' = Tail(todo)
       /\ (kalshi_rx # <<>> /\ kalshi_rx' = Tail(kalshi_rx))
          => todo = <<>> /\ todo' = <<>>]_vars

\* the cycle of A of a timer tick has placed the second order of the run, the
\* order has executed and its fill notice is queued, and the cycle of B is
\* still to run
C35_Witness ==
    /\ todo # <<>> /\ Head(todo).op = "entry" /\ Head(todo).arg = "B"
    /\ kalshi_rx # <<>>
    /\ Head(kalshi_rx).type = "Fill"
    /\ Head(kalshi_rx).fill.order_id = <<"ord", 2>>
    /\ Head(kalshi_rx).fill.ticker[1] = "A"
    /\ positions = {}

\* the cycle the Brain passes on, which no bound of the model stops
PassInput == Input("none", 0, Balance, "open", 10, PassDecision)
\* the exit whose sell fails
SellFails == ExitInput(TRUE, FALSE, FALSE, FALSE)

\* the loop can make its next call: the call entry_cycle or execute_exit the
\* handler is at, or, at the wait point, the first cycle of an entry tick
CanGoOn ==
    /\ todo = <<>>
          => /\ Len(EntryJobs) = Len(series_tickers)
             /\ \A i \in 1..Len(series_tickers) :
                   EntryJobs[i] = [op |-> "entry", arg |-> series_tickers[i]]
             /\ Fired(PassInput.fail, Cycle(PassInput).out)
             /\ ~has_position_for_series(positions, series_tickers[1])
                   => Cycle(PassInput).calls[1] = "resting_orders"
    /\ (todo # <<>> /\ Head(todo).op = "entry")
          => /\ Fired(PassInput.fail, Cycle(PassInput).out)
             /\ ~has_position_for_series(positions, Head(todo).arg)
                   => Cycle(PassInput).calls[1] = "resting_orders"
    /\ (todo # <<>> /\ Head(todo).op = "exit")
          => Exit(SellFails).next_oid <= MaxOrders + 1

\* C36: an error returned by entry_cycle never stops the loop: the other
\* configured series still get their cycle in the same tick, and the next
\* entry tick runs entry_cycle from its first step for every configured
\* series; an error returned by execute_exit does not keep the other exit
\* signals of the same tick from being executed.
C36_ErrorsDoNotStopLoop ==
    /\ []CanGoOn
    /\ [][/\ (todo # <<>> /\ todo' # todo) => todo' = Tail(todo)
          /\ (todo = <<>> /\ todo' # <<>> /\ Head(todo').op = "entry")
                => todo' = Tail(EntryJobs)
          /\ (todo = <<>> /\ todo' # <<>> /\ Head(todo').op = "exit")
                => \E q \in Orderings(check_exits(positions, orderbooks)) :
                       todo' = ExitJobs(q)]_vars

\* the cycle of A has returned an error, with rows in the ledger, and the
\* cycle of B of the same tick is the next call
C36_Witness ==
    /\ last_op = [op |-> "entry_cycle", out |-> "err:exchange"]
    /\ todo # <<>> /\ Head(todo) = [op |-> "entry", arg |-> "B"]
    /\ ledger # <<>>

\* an exit of a tick has returned an error and another exit is the next call
C36_WitnessExit ==
    /\ last_op = [op |-> "execute_exit", out |-> "err:exchange"]
    /\ todo # <<>> /\ Head(todo).op = "exit"

\* the loop waits for the next event: no handler is running and the top of
\* the loop has been passed
AtWait == todo = <<>>

\* C37: wherever the loop waits for the next event, the subscribed tickers
\* are the tickers with an open position in PositionManager.
C37_SubscribedIffHeld ==
    AtWait => subscribed_tickers = position_tickers(positions)

\* an exit has failed: the ticker was unsubscribed, the position has stayed,
\* and the loop waits with the ticker subscribed again
C37_Witness ==
    /\ AtWait
    /\ last_op = [op |-> "execute_exit", out |-> "err:exchange"]
    /\ positions # {}
    /\ subscribed_tickers = position_tickers(positions)

\* the loop waits with nothing held and nothing subscribed after an exit has
\* been executed
C37_WitnessExited ==
    /\ AtWait
    /\ last_op = [op |-> "execute_exit", out |-> "ok"]
    /\ positions = {}
    /\ subscribed_tickers = {}

\* the loop applies a fill notice for ticker t to PositionManager
AppliesFill(t) ==
    /\ todo = <<>>
    /\ kalshi_rx # <<>>
    /\ Head(kalshi_rx).type = "Fill"
    /\ Head(kalshi_rx).fill.ticker = t
    /\ kalshi_rx' = Tail(kalshi_rx)
    /\ t \in position_tickers(positions')

\* C38: a ticker is subscribed only once a fill notice for it has been
\* applied to PositionManager: a position appears only in the step that
\* applies a fill notice for its ticker, a ticker enters the subscription
\* set only in that step or while a position for it is held, and the cycle
\* that places an order subscribes nothing, the market of the order included.
C38_SubscribeOnlyAfterFill ==
    [][/\ \A p \in positions' :
             p.ticker \notin position_tickers(positions) => AppliesFill(p.ticker)
       /\ \A t \in subscribed_tickers' \ subscribed_tickers :
             AppliesFill(t) \/ t \in position_tickers(positions)
       /\ last_op'.op = "entry_cycle" /\ todo' # todo
             => /\ subscribed_tickers' = subscribed_tickers
                /\ \A i \in 1..Len(resting') :
                      resting'[i].order_id = <<"ord", next_oid>>
                          => resting'[i].ticker \notin subscribed_tickers']_vars

\* the loop waits with an order resting on a market it has not subscribed: no
\* fill notice has been applied and nothing is subscribed
C38_Witness ==
    /\ AtWait
    /\ resting # <<>>
    /\ positions = {}
    /\ subscribed_tickers = {}
    /\ kalshi_rx = <<>>

\* the fill notice of the order has been applied and its market is subscribed
C38_WitnessFilled ==
    /\ AtWait
    /\ \E p \in positions : p.order_id = <<"ord", 1>> /\ p.ticker \in subscribed_tickers

\* C39: the cancel step of entry_cycle for a series cancels every order the
\* exchange lists as resting, the ones on markets of another series and the
\* exit sells included: when the cycle gets past the step, none of them
\* rests any longer, and none rests when the cycle returns.
C39_CancelsAcrossSeries ==
    (AtEntry /\ ~has_position_for_series(positions, EntrySeries)) =>
        \A inp \in CycleInputs :
            AfterCancel(inp).st = "run" =>
                \A i \in 1..Len(resting) :
                    /\ resting[i].order_id \notin RestingIds(AfterCancel(inp).resting)
                    /\ resting[i].order_id \notin RestingIds(Cycle(inp).resting)
                    /\ Count(AfterCancel(inp).calls, "cancel_order") = Len(resting)

\* live mode, two series: the cycle of A has placed an order which rests, and
\* the cycle of B of the same tick is the next call
C39_Witness ==
    /\ ~paper_trade
    /\ todo = <<[op |-> "entry", arg |-> "B"]>>
    /\ last_op = [op |-> "entry_cycle", out |-> "ok"]
    /\ ~has_position_for_series(positions, "B")
    /\ \E i \in 1..Len(resting) :
          /\ resting[i].ticker[1] = "A"
          /\ resting[i].action = "buy"
          /\ resting[i].order_id = <<"ord", next_oid - 1>>

\* an exit sell rests when an entry cycle that is not skipped begins
C39_WitnessSell ==
    /\ AtEntry /\ ~has_position_for_series(positions, EntrySeries)
    /\ \E i \in 1..Len(resting) : resting[i].action = "sell"

(***************************************************************************)
(* The protocol task and the loop with the tickers written out: the events *)
(* carry their ticker, the handler of main.rs 95-151 enqueues the commands *)
(* it sends, and wire holds what the exchange has been told on the open    *)
(* connection.  The timers and the shutdown are left out.                  *)
(***************************************************************************)
StreamTickers == {<<"A", 1>>, <<"B", 1>>}

TickerCommand(op, ticker) == [op |-> op, arg |-> ticker]
SubscribeEach(q) == [i \in 1..Len(q) |-> TickerCommand("subscribe", q[i])]

\* the events the stream yields: the fill of an order on a market, and the
\* settlement notice of a market
StreamEvents ==
    {[type |-> "Fill", ticker |-> t,
      fill |-> [order_id |-> <<"ord", 1>>, ticker |-> t, side |-> "Yes",
                shares |-> 1, price_cents |-> 40]] : t \in StreamTickers}
    \cup {[type |-> "MarketLifecycle", ticker |-> t, status |-> "settled"] :
             t \in StreamTickers}

\* websocket.rs 117-126: read.next() yields a text message that parses to event
ReadKalshi(event) ==
    /\ ws["kalshi"] = "connected"
    /\ Len(parsed["kalshi"]) < MaxEvents
    /\ event.type = "MarketLifecycle" => event.ticker \in wire
    /\ parsed' = [parsed EXCEPT !["kalshi"] =
                     Append(@, [n |-> Len(parsed["kalshi"]) + 1] @@ event)]
    /\ ws' = [ws EXCEPT !["kalshi"] = "sending"]
    /\ UNCHANGED <<received, kalshi_rx, binance_rx, cmd_rx, shutdown, stopped,
                   todo, NetRest>>

\* a variant of LoopRecvKalshi that sends nothing for Disconnected
LoopRecvKalshi_no_resubscribe ==
    /\ ~stopped
    /\ todo = <<>>
    /\ kalshi_rx # <<>>
    /\ LET event == Head(kalshi_rx)
           held == MapGet(positions, event.ticker) # None
           cleared == event.type = "MarketLifecycle" /\ held
           subs == IF event.type = "Fill" THEN subscribed_tickers \cup {event.ticker}
                   ELSE IF cleared THEN subscribed_tickers \ {event.ticker}
                   ELSE subscribed_tickers
           sent == IF event.type = "Fill" /\ event.ticker \notin subscribed_tickers
                   THEN {<<TickerCommand("subscribe", event.ticker)>>}
                   ELSE IF cleared
                   THEN {<<TickerCommand("unsubscribe", event.ticker)>>}
                   ELSE IF event.type = "Disconnected"
                   THEN {<<>>}
                   ELSE {<<>>}
       IN /\ positions' = IF event.type = "Fill" THEN on_fill(positions, event.fill)
                          ELSE IF cleared
                          THEN clear_position_positions(positions, event.ticker)
                          ELSE positions
          /\ orderbooks' = IF cleared
                           THEN clear_position_orderbooks(orderbooks, event.ticker)
                           ELSE orderbooks
          /\ subscribed_tickers' = LoopTop(subs, positions', <<>>)
          /\ \E h \in sent : \E q \in Orderings(position_tickers(positions') \ subs) :
                todo' = h \o SubscribeEach(q)
          /\ received' = [received EXCEPT !["kalshi"] = Append(@, event)]
    /\ kalshi_rx' = Tail(kalshi_rx)
    /\ UNCHANGED <<store_vars, ws, parsed, binance_rx, cmd_rx, shutdown, stopped, wire,
                   series_tickers, paper_trade, now, ledger, stats_md, resting, exposure,
                   settled, next_oid, mkt, critical, last_op>>

\* main.rs 84-151: kalshi_rx.recv() is ready; the handler of the event and
\* the top of the loop after it, with the commands they send still to be
\* enqueued
LoopRecvKalshi ==
    /\ ~stopped
    /\ todo = <<>>
    /\ kalshi_rx # <<>>
    /\ LET event == Head(kalshi_rx)
           held == MapGet(positions, event.ticker) # None
           cleared == event.type = "MarketLifecycle" /\ held
           subs == IF event.type = "Fill" THEN subscribed_tickers \cup {event.ticker}
                   ELSE IF cleared THEN subscribed_tickers \ {event.ticker}
                   ELSE subscribed_tickers
           sent == IF event.type = "Fill" /\ event.ticker \notin subscribed_tickers
                   THEN {<<TickerCommand("subscribe", event.ticker)>>}
                   ELSE IF cleared
                   THEN {<<TickerCommand("unsubscribe", event.ticker)>>}
                   ELSE IF event.type = "Disconnected"
                   THEN {SubscribeEach(q) : q \in Orderings(subscribed_tickers)}
                   ELSE {<<>>}
       IN /\ positions' = IF event.type = "Fill" THEN on_fill(positions, event.fill)
                          ELSE IF cleared
                          THEN clear_position_positions(positions, event.ticker)
                          ELSE positions
          /\ orderbooks' = IF cleared
                           THEN clear_position_orderbooks(orderbooks, event.ticker)
                           ELSE orderbooks
          /\ subscribed_tickers' = LoopTop(subs, positions', <<>>)
          /\ \E h \in sent : \E q \in Orderings(position_tickers(positions') \ subs) :
                todo' = h \o SubscribeEach(q)
          /\ received' = [received EXCEPT !["kalshi"] = Append(@, event)]
    /\ kalshi_rx' = Tail(kalshi_rx)
    /\ UNCHANGED <<store_vars, ws, parsed, binance_rx, cmd_rx, shutdown, stopped, wire,
                   series_tickers, paper_trade, now, ledger, stats_md, resting, exposure,
                   settled, next_oid, mkt, critical, last_op>>

ReconNext ==
    \/ \E ok \in BOOLEAN : Connect("kalshi", ok)
    \/ \E event \in StreamEvents : ReadKalshi(event)
    \/ Deliver("kalshi")
    \/ Fail("kalshi")
    \/ Notify
    \/ Delay("kalshi")
    \/ \E ok \in BOOLEAN : TakeCmd(ok)
    \/ LoopCall
    \/ LoopSend
    \/ LoopRecvKalshi

ReconSpec == NetInit /\ [][ReconNext]_vars

Disconnects(events) == Cardinality({i \in 1..Len(events) : events[i].type = "Disconnected"})

\* the established connection ends in this step
ConnectionEnds ==
    /\ ws["kalshi"] \in {"connected", "sending"}
    /\ ws'["kalshi"] \notin {"connected", "sending"}

\* the loop takes a Disconnected notice from its channel in this step
TakesDisconnected ==
    /\ kalshi_rx # <<>>
    /\ Head(kalshi_rx).type = "Disconnected"
    /\ kalshi_rx' = Tail(kalshi_rx)

\* the connection is open, the loop waits, and no command and no Disconnected
\* notice is under way
Quiet ==
    /\ ws["kalshi"] = "connected"
    /\ todo = <<>>
    /\ cmd_rx = <<>>
    /\ Disconnects(kalshi_rx) = 0

\* C40: the protocol task appends exactly one Disconnected notice when an
\* established connection ends and none otherwise, a failed connect included;
\* the loop receives the notice after every event read from that connection;
\* in the step that takes it the loop changes neither positions nor the
\* subscription set and has one subscribe per subscribed ticker to enqueue;
\* and once the loop waits on an open connection with no command and no
\* notice under way, the exchange has every subscribed ticker subscribed on
\* that connection.
C40_OneNoticeThenResubscribe ==
    /\ [](/\ received["kalshi"] \o kalshi_rx \o InHand("kalshi") = parsed["kalshi"]
          /\ Quiet => wire = subscribed_tickers)
    /\ [][/\ ConnectionEnds
                => /\ ws'["kalshi"] = "notifying"
                   /\ parsed'["kalshi"] =
                          Append(parsed["kalshi"], Event("kalshi", "Disconnected"))
          /\ ~ConnectionEnds
                => Disconnects(parsed'["kalshi"]) = Disconnects(parsed["kalshi"])
          /\ TakesDisconnected
                => /\ positions' = positions
                   /\ subscribed_tickers' = subscribed_tickers
                   /\ cmd_rx' = cmd_rx
                   /\ Len(todo') = Cardinality(subscribed_tickers)
                   /\ Range(todo') = {TickerCommand("subscribe", t) :
                                         t \in subscribed_tickers}]_vars

\* a connection has ended with two tickers subscribed, the loop has taken
\* the notice, and on the connection established since both are subscribed
C40_Witness ==
    /\ Quiet
    /\ Disconnects(received["kalshi"]) = 1
    /\ subscribed_tickers = StreamTickers
    /\ wire = StreamTickers

\* a connection has ended, the loop has taken its one notice, and the
\* subscribe it has enqueued waits in the channel for the next connection
C40_WitnessWaiting ==
    /\ ws["kalshi"] = "delay"
    /\ Disconnects(parsed["kalshi"]) = 1
    /\ parsed["kalshi"][Len(parsed["kalshi"])].type = "Disconnected"
    /\ received["kalshi"] = parsed["kalshi"]
    /\ subscribed_tickers # {}
    /\ wire = {}
    /\ cmd_rx # <<>>

=============================================================================
